---- MODULE Spec2Model ----
(***************************************************************************)
(* State-machine model of the iSCSI storage backend of cloudpods:          *)
(*   - the host-side storage object SIscsiStorage (package storageman):    *)
(*     MountStorage / UnmountStorage / Detach / IsConnected /              *)
(*     GetDevicePath, run by concurrent goroutines on one instance;        *)
(*   - the control-plane driver SIscsiStorageDriver (package               *)
(*     storagedrivers): ValidateCreateData and its duplicate scan, with    *)
(*     the persistence of the record as a later, separate step.            *)
(***************************************************************************)
EXTENDS Integers, Sequences, FiniteSets, TLC

(***************************************************************************)
(* Bounds of the model and constants of the program.                       *)
(***************************************************************************)
\* number of goroutines that call into one SIscsiStorage instance
NumThreads == 2
\* how far one findDevicePath + time.Sleep round may overshoot the interval
MaxJitter == 1
\* waitForDevice: timeout := 30 * time.Second
WaitTimeout == 30
\* waitForDevice: interval := 1 * time.Second
WaitInterval == 1

\* number of API workers that handle storage creation requests concurrently
NumWorkers == 2
\* number of storage records the table can hold
MaxStorages == 2
\* validateAuthParams: len(username) > 255, len(password) > 255
MaxAuthLen == 255
\* validateIQN: len(iqn) > 223
MaxIqnLen == 223
\* number of storage records whose PostCreate runs
NumRecords == 3
\* len(storage.StoragecacheId) == 0: the record has no cache reference
NoCache == 0
\* api.STORAGE_ONLINE, and the status of a record that is not online yet
Online == "online"
Offline == "offline"

Threads == 1..NumThreads
NoThread == 0
Workers == 1..NumWorkers

VARIABLES
    \* ---- SIscsiStorage (host side) ----
    conf,          \* SIscsiStorageConf of the instance (set by SetStorageInfo)
    isConnected,   \* SIscsiStorage.isConnected
    devicePath,    \* SIscsiStorage.devicePath
    lockW,         \* connectionMu: the goroutine holding Lock(), or NoThread
    lockR,         \* connectionMu: the goroutines holding RLock()
    session,       \* the initiator's session for (iqn, portal) is logged in
    pc,            \* per goroutine: position in the method it runs
    op,            \* per goroutine: the method it runs
    ret,           \* per goroutine: result of the method ("none" until decided)
    trace,         \* per goroutine: initiator/resolver calls of the running method
    pre,           \* per goroutine: flag and path seen when the lock was taken
    elapsed,       \* per goroutine: time.Now() - start of waitForDevice
    found,         \* per goroutine: local devicePath returned by waitForDevice
    acc,           \* per goroutine: the Accessible call it runs
    lastq,         \* the last query, unsupported operation or sync call
    disks,         \* SBaseStorage.Disks: ids of the disks of the instance
    diskLock,      \* SBaseStorage.DiskLock: the goroutine that holds it
    diskId,        \* per goroutine: the disk id its disk method was called with
    scan,          \* a findDevicePath call: its inputs and its result
    storageId,     \* SBaseStorage.StorageId (set by SetStorageInfo)
    peer,          \* a second instance with the same (iqn, portal)
    \* ---- SIscsiStorageDriver (control plane) ----
    storages,      \* persisted storage records (storages_tbl), in insertion order
    reqs,          \* creation requests in flight, one per API worker
    vin,           \* the request a validator is called with
    vout,          \* what the validator returned and did
    caches,        \* persisted storage cache records (storagecaches_tbl)
    jobs           \* per storage record: the PostCreate run for it

\* what the steps of MountStorage, UnmountStorage and the readers leave alone
diskVars == <<diskLock, diskId, scan>>
auxVars == <<acc, lastq, disks, diskVars, storageId, peer>>
hostVars == <<conf, isConnected, devicePath, lockW, lockR, session,
              pc, op, ret, trace, pre, elapsed, found, auxVars>>
valVars == <<vin, vout>>
postVars == <<caches, jobs>>
ctlVars == <<storages, reqs, vin, vout, caches, jobs, auxVars>>
vars == <<conf, isConnected, devicePath, lockW, lockR, session,
          pc, op, ret, trace, pre, elapsed, found, acc, lastq, disks,
          diskLock, diskId, scan, storageId, peer, storages, reqs, vin, vout,
          caches, jobs>>

(***************************************************************************)
(* Host side: configuration and the outcomes of the external calls.        *)
(***************************************************************************)
HostIqn == "iqn.2023-01.com.example:target01"
HostPortal == "192.168.1.100:3260"
HostTarget == "192.168.1.100"

\* the configurations SetStorageInfo can unmarshal: credentials are optional
HostConfs ==
    [target : {HostTarget}, iqn : {HostIqn}, portal : {HostPortal},
     username : {"", "testuser"}, password : {"", "testpass"}, lunId : {0}]

\* real paths filepath.EvalSymlinks can return for the LUN
DevPaths == {"/dev/sdb", "/dev/sdc"}

\* results of one findDevicePath call: (realPath, nil) or ("", err)
PollResults ==
    {[err |-> TRUE, path |-> ""]} \cup {[err |-> FALSE, path |-> p] : p \in DevPaths}

\* results of one iscsiadm invocation (cmd.Output()): err is the exit status,
\* has says whether the output contains the string the caller searches it
\* for: s.Iqn after discovery, "already exists" after login, "not found"
\* after logout and after node delete
ToolOutputs == [err : BOOLEAN, has : BOOLEAN]

\* one call of the initiator tool or of the resolver, as issued, with what
\* it returned
Call(verb, arg, out) ==
    [verb |-> verb, iqn |-> conf.iqn, portal |-> conf.portal, arg |-> arg,
     value |-> "", listed |-> <<>>, err |-> out.err, has |-> out.has]

\* the target names the output of a discovery can list, each name in pieces:
\* the configured name, a longer name that begins with it, another name
OtherIqn == "iqn.2023-01.com.example:backup"
Listings ==
    {<<>>, << <<HostIqn>> >>, << <<HostIqn, "0">> >>, << <<OtherIqn>> >>}

\* strings.Contains(string(output), s.Iqn): the name occurs somewhere in the
\* output, as a whole name or within a longer one
Contains(listing, iqn) ==
    \E k \in 1..Len(listing) : \E i \in 1..Len(listing[k]) : listing[k][i] = iqn

\* s.Username != "" && s.Password != ""
hasCredentials == conf.username # "" /\ conf.password # ""

\* variant: the discovery output is not searched for s.Iqn
discoverTargetAnyOutput(out) == ~out.err

\* discoverTarget: nil iff the tool succeeded and the output contains s.Iqn
discoverTarget(out) == ~out.err /\ out.has

\* variant: every failed login invocation is an error
loginTargetStrict(out) == ~out.err

\* loginTarget, the login invocation: nil iff the tool succeeded or its
\* output contains "already exists"
loginTarget(out) == ~out.err \/ out.has

\* logoutTarget: nil iff the tool succeeded or its output contains "not found"
logoutTarget(out) == ~out.err \/ out.has

\* cleanupDiscovery: nil iff the tool succeeded or its output contains "not found"
cleanupDiscovery(out) == ~out.err \/ out.has

\* variant: the result of findDevicePath is taken without looking at it
pollAcceptedUnchecked(r) == TRUE

\* waitForDevice: the poll ends the wait iff err == nil && devicePath != ""
pollAccepted(r) == ~r.err /\ r.path # ""

\* variant: one more round is begun at the deadline
beforeDeadlineInclusive(e) == e <= WaitTimeout

\* waitForDevice: for time.Now().Before(deadline)
beforeDeadline(e) == e < WaitTimeout

\* the kernel session after a login invocation: a successful login creates
\* it; "already exists" is only reported for a session that is there
sessionAfterLogin(out) == IF ~out.err THEN TRUE ELSE session
loginPossible(out) == (out.err /\ out.has) => session

\* the kernel session after a logout invocation
sessionAfterLogout(out) == IF ~out.err THEN FALSE ELSE session

Writers == {"MountStorage", "UnmountStorage", "Detach"}
Readers == {"IsConnected", "GetDevicePath"}

NoPre == [conn |-> FALSE, path |-> ""]

HostInit ==
    /\ conf \in HostConfs
    /\ isConnected = FALSE
    /\ devicePath = ""
    /\ lockW = NoThread
    /\ lockR = {}
    /\ session \in BOOLEAN
    /\ pc = [t \in Threads |-> "idle"]
    /\ op = [t \in Threads |-> "none"]
    /\ ret = [t \in Threads |-> "none"]
    /\ trace = [t \in Threads |-> <<>>]
    /\ pre = [t \in Threads |-> NoPre]
    /\ elapsed = [t \in Threads |-> 0]
    /\ found = [t \in Threads |-> ""]

\* the instance as NewIscsiStorage and SetStorageInfo leave it, for the
\* specification of the control plane, which never touches it
HostIdle ==
    /\ conf = [target |-> HostTarget, iqn |-> HostIqn, portal |-> HostPortal,
               username |-> "", password |-> "", lunId |-> 0]
    /\ isConnected = FALSE
    /\ devicePath = ""
    /\ lockW = NoThread
    /\ lockR = {}
    /\ session = FALSE
    /\ pc = [t \in Threads |-> "idle"]
    /\ op = [t \in Threads |-> "none"]
    /\ ret = [t \in Threads |-> "none"]
    /\ trace = [t \in Threads |-> <<>>]
    /\ pre = [t \in Threads |-> NoPre]
    /\ elapsed = [t \in Threads |-> 0]
    /\ found = [t \in Threads |-> ""]

\* the instance as NewIscsiStorage and SetStorageInfo leave it when the
\* configuration carries credentials
HostAuthIdle ==
    /\ conf = [target |-> HostTarget, iqn |-> HostIqn, portal |-> HostPortal,
               username |-> "testuser", password |-> "testpass", lunId |-> 0]
    /\ isConnected = FALSE
    /\ devicePath = ""
    /\ lockW = NoThread
    /\ lockR = {}
    /\ session = FALSE
    /\ pc = [t \in Threads |-> "idle"]
    /\ op = [t \in Threads |-> "none"]
    /\ ret = [t \in Threads |-> "none"]
    /\ trace = [t \in Threads |-> <<>>]
    /\ pre = [t \in Threads |-> NoPre]
    /\ elapsed = [t \in Threads |-> 0]
    /\ found = [t \in Threads |-> ""]

\* frame of a step by goroutine t that touches only its position
Goto(t, next) == pc' = [pc EXCEPT ![t] = next]
Issue(t, c) == trace' = [trace EXCEPT ![t] = Append(@, c)]
Return(t, r) == ret' = [ret EXCEPT ![t] = r] /\ Goto(t, "ret")

(***************************************************************************)
(* The methods of SIscsiStorage, one action per step. A goroutine that has *)
(* called a method and is blocked in Lock()/RLock() is at "idle": being    *)
(* blocked changes nothing until the mutex is granted.                     *)
(***************************************************************************)
\* variant: a writer does not wait for the readers
lockFreeIgnoringReaders == lockW = NoThread

\* sync.RWMutex.Lock: waits until no writer and no reader holds the mutex
lockFree == lockW = NoThread /\ lockR = {}

\* a goroutine calls MountStorage, UnmountStorage or Detach (which calls
\* UnmountStorage) and is granted s.connectionMu.Lock()
Lock(t) ==
    /\ pc[t] = "idle"
    /\ lockFree
    /\ lockW' = t
    /\ pre' = [pre EXCEPT ![t] = [conn |-> isConnected, path |-> devicePath]]
    /\ \E m \in Writers :
         /\ op' = [op EXCEPT ![t] = m]
         /\ Goto(t, IF m = "MountStorage" THEN "m_check" ELSE "u_check")
    /\ UNCHANGED <<conf, isConnected, devicePath, lockR, session,
                   ret, trace, elapsed, found, ctlVars>>

\* variant: MountStorage without the early return
MountCheckAlwaysMounts(t) ==
    /\ pc[t] = "m_check"
    /\ Goto(t, "m_discover")
    /\ UNCHANGED <<conf, isConnected, devicePath, lockW, lockR, session,
                   op, ret, trace, pre, elapsed, found, ctlVars>>

\* MountStorage: if s.isConnected { return nil }
MountCheck(t) ==
    /\ pc[t] = "m_check"
    /\ IF isConnected
         THEN Return(t, "ok")
         ELSE Goto(t, "m_discover") /\ UNCHANGED ret
    /\ UNCHANGED <<conf, isConnected, devicePath, lockW, lockR, session,
                   op, trace, pre, elapsed, found, ctlVars>>

\* MountStorage step 1: s.discoverTarget()
Discover(t) ==
    /\ pc[t] = "m_discover"
    /\ \E e \in BOOLEAN, l \in Listings :
         LET out == [err |-> e, has |-> Contains(l, conf.iqn)] IN
         /\ Issue(t, [Call("discovery", IF hasCredentials THEN "auth" ELSE "", out)
                         EXCEPT !.listed = l])
         /\ IF discoverTarget(out)
              THEN Goto(t, IF hasCredentials THEN "m_auth1" ELSE "m_login")
                   /\ UNCHANGED ret
              ELSE Return(t, "err")
    /\ UNCHANGED <<conf, isConnected, devicePath, lockW, lockR, session,
                   op, pre, elapsed, found, ctlVars>>

\* the three node parameters setAuthParams sets, in order
AuthParam(p) ==
    CASE p = "m_auth1" -> "node.session.auth.authmethod"
      [] p = "m_auth2" -> "node.session.auth.username"
      [] p = "m_auth3" -> "node.session.auth.password"
\* the value each of them is given
AuthValue(p) ==
    CASE p = "m_auth1" -> "CHAP"
      [] p = "m_auth2" -> conf.username
      [] p = "m_auth3" -> conf.password
\* variant: the password is not set
AuthNextSkipsPassword(p) ==
    CASE p = "m_auth1" -> "m_auth2"
      [] p = "m_auth2" -> "m_login"
      [] p = "m_auth3" -> "m_login"
AuthNext(p) ==
    CASE p = "m_auth1" -> "m_auth2"
      [] p = "m_auth2" -> "m_auth3"
      [] p = "m_auth3" -> "m_login"

\* loginTarget -> setAuthParams -> setNodeParam: one parameter update
SetNodeParam(t) ==
    /\ pc[t] \in {"m_auth1", "m_auth2", "m_auth3"}
    /\ \E out \in {o \in ToolOutputs : ~o.has} :
         /\ Issue(t, [Call("setparam", AuthParam(pc[t]), out)
                         EXCEPT !.value = AuthValue(pc[t])])
         /\ IF out.err
              THEN Return(t, "err")
              ELSE Goto(t, AuthNext(pc[t])) /\ UNCHANGED ret
    /\ UNCHANGED <<conf, isConnected, devicePath, lockW, lockR, session,
                   op, pre, elapsed, found, ctlVars>>

\* MountStorage step 2: loginTarget's iscsiadm --login
Login(t) ==
    /\ pc[t] = "m_login"
    /\ \E out \in ToolOutputs :
         /\ loginPossible(out)
         /\ Issue(t, Call("login", "", out))
         /\ session' = sessionAfterLogin(out)
         /\ IF loginTarget(out)
              THEN /\ Goto(t, "m_wait")
                   /\ elapsed' = [elapsed EXCEPT ![t] = 0]
                   /\ UNCHANGED ret
              ELSE Return(t, "err") /\ UNCHANGED elapsed
    /\ UNCHANGED <<conf, isConnected, devicePath, lockW, lockR,
                   op, pre, found, ctlVars>>

\* MountStorage step 3, waitForDevice: one round of the loop, findDevicePath
\* and, when it did not resolve, time.Sleep(interval)
Poll(t) ==
    /\ pc[t] = "m_wait"
    /\ beforeDeadline(elapsed[t])
    /\ \E r \in PollResults :
         /\ Issue(t, Call("poll", "", [err |-> r.err, has |-> r.path # ""]))
         /\ IF pollAccepted(r)
              THEN /\ found' = [found EXCEPT ![t] = r.path]
                   /\ Goto(t, "m_setpath")
                   /\ UNCHANGED elapsed
              ELSE /\ \E j \in 0..MaxJitter :
                        elapsed' = [elapsed EXCEPT ![t] = @ + WaitInterval + j]
                   /\ UNCHANGED <<found, pc>>
    /\ UNCHANGED <<conf, isConnected, devicePath, lockW, lockR, session,
                   op, ret, pre, ctlVars>>

\* waitForDevice: the deadline has passed, "timeout waiting for iSCSI device"
WaitTimedOut(t) ==
    /\ pc[t] = "m_wait"
    /\ ~beforeDeadline(elapsed[t])
    /\ Goto(t, "m_rollback")
    /\ UNCHANGED <<conf, isConnected, devicePath, lockW, lockR, session,
                   op, ret, trace, pre, elapsed, found, ctlVars>>

\* variant: the timeout is returned without the cleanup logout
RollbackWithoutLogout(t) ==
    /\ pc[t] = "m_rollback"
    /\ Return(t, "err")
    /\ UNCHANGED <<conf, isConnected, devicePath, lockW, lockR, session,
                   op, trace, pre, elapsed, found, ctlVars>>

\* MountStorage: cleanup on failure, s.logoutTarget(), then return the error
Rollback(t) ==
    /\ pc[t] = "m_rollback"
    /\ \E out \in ToolOutputs :
         /\ Issue(t, Call("logout", "", out))
         /\ session' = sessionAfterLogout(out)
    /\ Return(t, "err")
    /\ UNCHANGED <<conf, isConnected, devicePath, lockW, lockR,
                   op, pre, elapsed, found, ctlVars>>

\* MountStorage: s.devicePath = devicePath
MountSetPath(t) ==
    /\ pc[t] = "m_setpath"
    /\ devicePath' = found[t]
    /\ Goto(t, "m_setflag")
    /\ UNCHANGED <<conf, isConnected, lockW, lockR, session,
                   op, ret, trace, pre, elapsed, found, ctlVars>>

\* MountStorage: s.isConnected = true; return nil
MountSetFlag(t) ==
    /\ pc[t] = "m_setflag"
    /\ isConnected' = TRUE
    /\ Return(t, "ok")
    /\ UNCHANGED <<conf, devicePath, lockW, lockR, session,
                   op, trace, pre, elapsed, found, ctlVars>>

\* variant: UnmountStorage without the early return
UnmountCheckAlwaysLogsOut(t) ==
    /\ pc[t] = "u_check"
    /\ Goto(t, "u_logout")
    /\ UNCHANGED <<conf, isConnected, devicePath, lockW, lockR, session,
                   op, ret, trace, pre, elapsed, found, ctlVars>>

\* UnmountStorage: if !s.isConnected { return nil }
UnmountCheck(t) ==
    /\ pc[t] = "u_check"
    /\ IF ~isConnected
         THEN Return(t, "ok")
         ELSE Goto(t, "u_logout") /\ UNCHANGED ret
    /\ UNCHANGED <<conf, isConnected, devicePath, lockW, lockR, session,
                   op, trace, pre, elapsed, found, ctlVars>>

\* variant: a failed logout is returned to the caller
UnmountLogoutAborts(t) ==
    /\ pc[t] = "u_logout"
    /\ \E out \in ToolOutputs :
         /\ Issue(t, Call("logout", "", out))
         /\ session' = sessionAfterLogout(out)
         /\ IF logoutTarget(out)
              THEN Goto(t, "u_cleanup") /\ UNCHANGED ret
              ELSE Return(t, "err")
    /\ UNCHANGED <<conf, isConnected, devicePath, lockW, lockR,
                   op, pre, elapsed, found, ctlVars>>

\* UnmountStorage step 1: s.logoutTarget(); an error is logged, not returned
UnmountLogout(t) ==
    /\ pc[t] = "u_logout"
    /\ \E out \in ToolOutputs :
         /\ Issue(t, Call("logout", "", out))
         /\ session' = sessionAfterLogout(out)
    /\ Goto(t, "u_cleanup")
    /\ UNCHANGED <<conf, isConnected, devicePath, lockW, lockR,
                   op, ret, pre, elapsed, found, ctlVars>>

\* UnmountStorage step 2: s.cleanupDiscovery(); an error is logged, not returned
UnmountCleanup(t) ==
    /\ pc[t] = "u_cleanup"
    /\ \E out \in ToolOutputs :
         Issue(t, Call("delete", "", out))
    /\ Goto(t, "u_clearpath")
    /\ UNCHANGED <<conf, isConnected, devicePath, lockW, lockR, session,
                   op, ret, pre, elapsed, found, ctlVars>>

\* UnmountStorage: s.devicePath = ""
UnmountClearPath(t) ==
    /\ pc[t] = "u_clearpath"
    /\ devicePath' = ""
    /\ Goto(t, "u_clearflag")
    /\ UNCHANGED <<conf, isConnected, lockW, lockR, session,
                   op, ret, trace, pre, elapsed, found, ctlVars>>

\* UnmountStorage: s.isConnected = false; return nil
UnmountClearFlag(t) ==
    /\ pc[t] = "u_clearflag"
    /\ isConnected' = FALSE
    /\ Return(t, "ok")
    /\ UNCHANGED <<conf, devicePath, lockW, lockR, session,
                   op, trace, pre, elapsed, found, ctlVars>>

\* defer s.connectionMu.Unlock(): the method returns to its caller
Unlock(t) ==
    /\ pc[t] = "ret"
    /\ lockW = t
    /\ lockW' = NoThread
    /\ pc' = [pc EXCEPT ![t] = "idle"]
    /\ op' = [op EXCEPT ![t] = "none"]
    /\ ret' = [ret EXCEPT ![t] = "none"]
    /\ trace' = [trace EXCEPT ![t] = <<>>]
    /\ pre' = [pre EXCEPT ![t] = NoPre]
    /\ elapsed' = [elapsed EXCEPT ![t] = 0]
    /\ found' = [found EXCEPT ![t] = ""]
    /\ UNCHANGED <<conf, isConnected, devicePath, lockR, session, ctlVars>>

\* sync.RWMutex.RLock: waits while a writer holds the mutex
rlockFree == lockW = NoThread

\* a goroutine calls IsConnected or GetDevicePath and is granted
\* s.connectionMu.RLock()
RLock(t) ==
    /\ pc[t] = "idle"
    /\ rlockFree
    /\ lockR' = lockR \cup {t}
    /\ pre' = [pre EXCEPT ![t] = [conn |-> isConnected, path |-> devicePath]]
    /\ \E m \in Readers : op' = [op EXCEPT ![t] = m]
    /\ Goto(t, "r_read")
    /\ UNCHANGED <<conf, isConnected, devicePath, lockW, session,
                   ret, trace, elapsed, found, ctlVars>>

\* return s.isConnected / return s.devicePath
Read(t) ==
    /\ pc[t] = "r_read"
    /\ found' = [found EXCEPT ![t] =
                   IF op[t] = "GetDevicePath" THEN devicePath
                   ELSE IF isConnected THEN "true" ELSE "false"]
    /\ ret' = [ret EXCEPT ![t] = "ok"]
    /\ Goto(t, "r_ret")
    /\ UNCHANGED <<conf, isConnected, devicePath, lockW, lockR, session,
                   op, trace, pre, elapsed, ctlVars>>

\* defer s.connectionMu.RUnlock()
RUnlock(t) ==
    /\ pc[t] = "r_ret"
    /\ lockR' = lockR \ {t}
    /\ pc' = [pc EXCEPT ![t] = "idle"]
    /\ op' = [op EXCEPT ![t] = "none"]
    /\ ret' = [ret EXCEPT ![t] = "none"]
    /\ pre' = [pre EXCEPT ![t] = NoPre]
    /\ found' = [found EXCEPT ![t] = ""]
    /\ UNCHANGED <<conf, isConnected, devicePath, lockW, session,
                   trace, elapsed, ctlVars>>

\* one step of goroutine t in MountStorage, UnmountStorage, Detach,
\* IsConnected or GetDevicePath, up to the return of the method
MethodStep(t) ==
    \/ MountCheck(t)
    \/ Discover(t)
    \/ SetNodeParam(t)
    \/ Login(t)
    \/ Poll(t)
    \/ WaitTimedOut(t)
    \/ Rollback(t)
    \/ MountSetPath(t)
    \/ MountSetFlag(t)
    \/ UnmountCheck(t)
    \/ UnmountLogout(t)
    \/ UnmountCleanup(t)
    \/ UnmountClearPath(t)
    \/ UnmountClearFlag(t)

HostNext ==
    \E t \in Threads :
        \/ Lock(t)
        \/ MethodStep(t)
        \/ Unlock(t)
        \/ RLock(t)
        \/ Read(t)
        \/ RUnlock(t)

(***************************************************************************)
(* Host side: the methods that take no lock of their own. Accessible calls *)
(* IsConnected, MountStorage and GetDevicePath one after the other, each   *)
(* taking and releasing s.connectionMu by itself.                          *)
(***************************************************************************)
hostCore == <<conf, isConnected, devicePath, lockW, lockR, session,
              pc, op, ret, trace, pre, elapsed, found>>
ctlCore == <<storages, reqs, vin, vout, caches, jobs>>

\* len(s.StorageId) == 0
NoStorageId == 0

\* the Accessible call of a goroutine: what IsConnected returned, whether
\* MountStorage was called and what it returned, what GetDevicePath
\* returned, what os.Stat returned, and the result
NoAcc ==
    [stage |-> "none", sawConn |-> FALSE, mounted |-> FALSE, mres |-> "none",
     path |-> "", stat |-> "none", res |-> "none"]

\* the fields of the instance an operation could touch
View == [conn |-> isConnected, path |-> devicePath, disks |-> disks]
NoView == [conn |-> FALSE, path |-> "", disks |-> <<>>]
NoQuery ==
    [op |-> "none", verb |-> "", num |-> 0, err |-> "", before |-> NoView]
NoPeer == [isConnected |-> FALSE, devicePath |-> ""]
NoScan ==
    [done |-> FALSE, portal |-> <<>>, lunId |-> 0, dir |-> <<>>,
     readErr |-> FALSE, path |-> "", err |-> "none", from |-> 0,
     host |-> <<>>]

\* no disk method and no findDevicePath call under way
DiskIdle ==
    /\ diskLock = NoThread
    /\ diskId = [t \in Threads |-> ""]
    /\ scan = NoScan

\* NewIscsiStorage: no call made, no disk, no storage id
AuxIdle ==
    /\ acc = [t \in Threads |-> NoAcc]
    /\ lastq = NoQuery
    /\ disks = <<>>
    /\ DiskIdle
    /\ storageId = NoStorageId
    /\ peer = NoPeer

\* variant: the instance is connected whenever it is asked
AccCheckSeesConnected(t) ==
    /\ pc[t] = "idle"
    /\ rlockFree
    /\ acc' = [acc EXCEPT ![t] = [NoAcc EXCEPT !.stage = "checked",
                                              !.sawConn = isConnected]]
    /\ Goto(t, "a_path")
    /\ UNCHANGED <<conf, isConnected, devicePath, lockW, lockR, session,
                   op, ret, trace, pre, elapsed, found,
                   lastq, disks, diskVars, storageId, peer, ctlCore>>

\* Accessible: if !s.IsConnected(), the read made under RLock
AccCheck(t) ==
    /\ pc[t] = "idle"
    /\ rlockFree
    /\ acc' = [acc EXCEPT ![t] = [NoAcc EXCEPT !.stage = "checked",
                                              !.sawConn = isConnected]]
    /\ Goto(t, IF isConnected THEN "a_path" ELSE "a_mount")
    /\ UNCHANGED <<conf, isConnected, devicePath, lockW, lockR, session,
                   op, ret, trace, pre, elapsed, found,
                   lastq, disks, diskVars, storageId, peer, ctlCore>>

\* Accessible: s.MountStorage() is called and granted s.connectionMu.Lock()
AccMount(t) ==
    /\ pc[t] = "a_mount"
    /\ lockFree
    /\ lockW' = t
    /\ pre' = [pre EXCEPT ![t] = [conn |-> isConnected, path |-> devicePath]]
    /\ op' = [op EXCEPT ![t] = "MountStorage"]
    /\ acc' = [acc EXCEPT ![t].stage = "mounting", ![t].mounted = TRUE]
    /\ Goto(t, "m_check")
    /\ UNCHANGED <<conf, isConnected, devicePath, lockR, session,
                   ret, trace, elapsed, found,
                   lastq, disks, diskVars, storageId, peer, ctlCore>>

\* MountStorage returns to Accessible (its deferred Unlock runs): an error
\* is returned wrapped, "mount iSCSI storage"
AccMountReturn(t) ==
    /\ pc[t] = "ret"
    /\ lockW = t
    /\ acc[t].stage = "mounting"
    /\ lockW' = NoThread
    /\ acc' = [acc EXCEPT ![t].stage = "mounted", ![t].mres = ret[t],
                          ![t].res = IF ret[t] = "err" THEN "mount-err"
                                     ELSE "none"]
    /\ pc' = [pc EXCEPT ![t] = IF ret[t] = "err" THEN "a_done" ELSE "a_path"]
    /\ op' = [op EXCEPT ![t] = "none"]
    /\ ret' = [ret EXCEPT ![t] = "none"]
    /\ trace' = [trace EXCEPT ![t] = <<>>]
    /\ pre' = [pre EXCEPT ![t] = NoPre]
    /\ elapsed' = [elapsed EXCEPT ![t] = 0]
    /\ found' = [found EXCEPT ![t] = ""]
    /\ UNCHANGED <<conf, isConnected, devicePath, lockR, session,
                   lastq, disks, diskVars, storageId, peer, ctlCore>>

\* Accessible: devicePath := s.GetDevicePath(), the read made under RLock;
\* if devicePath == "" { return "no device path available" }
AccPath(t) ==
    /\ pc[t] = "a_path"
    /\ rlockFree
    /\ acc' = [acc EXCEPT ![t].stage = "path", ![t].path = devicePath,
                          ![t].res = IF devicePath = "" THEN "no-path"
                                     ELSE "none"]
    /\ Goto(t, IF devicePath = "" THEN "a_done" ELSE "a_stat")
    /\ UNCHANGED <<conf, isConnected, devicePath, lockW, lockR, session,
                   op, ret, trace, pre, elapsed, found,
                   lastq, disks, diskVars, storageId, peer, ctlCore>>

\* Accessible: os.Stat(devicePath); an error is returned wrapped, "device
\* not accessible", otherwise nil
AccStat(t) ==
    /\ pc[t] = "a_stat"
    /\ \E ok \in BOOLEAN :
         acc' = [acc EXCEPT ![t].stage = "stat",
                            ![t].stat = IF ok THEN "ok" ELSE "err",
                            ![t].res = IF ok THEN "ok" ELSE "stat-err"]
    /\ Goto(t, "a_done")
    /\ UNCHANGED <<conf, isConnected, devicePath, lockW, lockR, session,
                   op, ret, trace, pre, elapsed, found,
                   lastq, disks, diskVars, storageId, peer, ctlCore>>

\* Accessible returns to its caller
AccReturn(t) ==
    /\ pc[t] = "a_done"
    /\ acc' = [acc EXCEPT ![t] = NoAcc]
    /\ Goto(t, "idle")
    /\ UNCHANGED <<conf, isConnected, devicePath, lockW, lockR, session,
                   op, ret, trace, pre, elapsed, found,
                   lastq, disks, diskVars, storageId, peer, ctlCore>>

\* goroutine 1 calls Accessible while the others call MountStorage,
\* UnmountStorage and Detach
AccessNext ==
    \/ AccCheck(1)
    \/ AccMount(1)
    \/ AccMountReturn(1)
    \/ AccPath(1)
    \/ AccStat(1)
    \/ AccReturn(1)
    \/ \E t \in Threads : MethodStep(t)
    \/ \E t \in Threads \ {1} : Lock(t) \/ Unlock(t)

\* variant: the capacity is 0 while the instance is not connected
GetCapacityMbZeroUnmounted(s) == IF s.conn THEN -1 ELSE 0

\* GetCapacityMb: return -1
GetCapacityMb(s) == -1

\* GetFreeSizeMb: return -1
GetFreeSizeMb(s) == -1

\* goroutine t calls GetCapacityMb or GetFreeSizeMb; neither takes a lock
CapacityQuery(t) ==
    /\ pc[t] = "idle"
    /\ \E m \in {"GetCapacityMb", "GetFreeSizeMb"} :
         lastq' = [NoQuery EXCEPT
                     !.op = m,
                     !.num = IF m = "GetCapacityMb" THEN GetCapacityMb(View)
                             ELSE GetFreeSizeMb(View),
                     !.before = View]
    /\ Goto(t, "q_ret")
    /\ UNCHANGED <<conf, isConnected, devicePath, lockW, lockR, session,
                   op, ret, trace, pre, elapsed, found,
                   acc, disks, diskVars, storageId, peer, ctlCore>>

\* the methods whose body is return errors.ErrNotSupported
UnsupportedOps ==
    {"DeleteSnapshot", "DeleteSnapshots", "IsSnapshotExist",
     "CreateSnapshotFormUrl", "CreateDiskFromSnapshot",
     "CreateDiskFromExistingPath", "StorageBackup", "StorageBackupRecovery",
     "DeleteDiskfile", "SaveToGlance", "CreateDiskFromBackup", "DiskMigrate",
     "CloneDiskFromStorage", "DestinationPrepareMigrate"}

\* variant: the operation forgets the disks of the instance
UnsupportedDropsDisks(t, m) ==
    /\ pc[t] = "idle"
    /\ disks' = <<>>
    /\ lastq' = [NoQuery EXCEPT
                   !.op = m, !.err = "ErrNotSupported", !.before = View]
    /\ Goto(t, "q_ret")
    /\ UNCHANGED <<conf, isConnected, devicePath, lockW, lockR, session,
                   op, ret, trace, pre, elapsed, found,
                   acc, diskVars, storageId, peer, ctlCore>>

\* goroutine t calls one of the unsupported operations; none takes a lock
Unsupported(t, m) ==
    /\ pc[t] = "idle"
    /\ lastq' = [NoQuery EXCEPT
                   !.op = m, !.err = "ErrNotSupported", !.before = View]
    /\ Goto(t, "q_ret")
    /\ UNCHANGED <<conf, isConnected, devicePath, lockW, lockR, session,
                   op, ret, trace, pre, elapsed, found,
                   acc, disks, diskVars, storageId, peer, ctlCore>>

\* goroutine t calls SyncStorageInfo: with a storage id,
\* modules.Storages.Put of name, status online and zone on the record of
\* that id, which the region applies when the request succeeds; without
\* one, modules.Storages.Get by name
SyncStorageInfo(t) ==
    /\ pc[t] = "idle"
    /\ \E ok \in BOOLEAN :
         IF storageId # NoStorageId
           THEN /\ lastq' = [NoQuery EXCEPT
                               !.op = "SyncStorageInfo", !.verb = "PUT",
                               !.err = IF ok THEN "" ELSE "err",
                               !.before = View]
                /\ storages' =
                     IF ok /\ storageId \in 1..Len(storages)
                       THEN [storages EXCEPT ![storageId].status = Online]
                       ELSE storages
           ELSE /\ lastq' = [NoQuery EXCEPT
                               !.op = "SyncStorageInfo", !.verb = "GET",
                               !.err = IF ok THEN "" ELSE "err",
                               !.before = View]
                /\ UNCHANGED storages
    /\ Goto(t, "q_ret")
    /\ UNCHANGED <<conf, isConnected, devicePath, lockW, lockR, session,
                   op, ret, trace, pre, elapsed, found,
                   acc, disks, diskVars, storageId, peer,
                   reqs, vin, vout, caches, jobs>>

\* the query, the unsupported operation or SyncStorageInfo returns
QueryReturn(t) ==
    /\ pc[t] = "q_ret"
    /\ lastq' = NoQuery
    /\ Goto(t, "idle")
    /\ UNCHANGED <<conf, isConnected, devicePath, lockW, lockR, session,
                   op, ret, trace, pre, elapsed, found,
                   acc, disks, diskVars, storageId, peer, ctlCore>>

\* one goroutine calls MountStorage, UnmountStorage, Detach, the queries,
\* the unsupported operations and SyncStorageInfo one after the other
QueryNext ==
    \/ Lock(1)
    \/ MethodStep(1)
    \/ Unlock(1)
    \/ CapacityQuery(1)
    \/ \E m \in UnsupportedOps : Unsupported(1, m)
    \/ SyncStorageInfo(1)
    \/ QueryReturn(1)

(***************************************************************************)
(* A second SIscsiStorage instance on the same host, configured with the   *)
(* same target, IQN and portal and another LUN. It has a connectionMu of   *)
(* its own; the initiator keeps one session for the (iqn, portal) pair,    *)
(* which both instances log into and out of. Each of its methods is taken  *)
(* as one step.                                                            *)
(***************************************************************************)
PeerConf == [conf EXCEPT !.lunId = 1]

\* the peer's MountStorage: discoverTarget, loginTarget (setAuthParams and
\* the login), waitForDevice, and the logout on a timeout; authOk is the
\* outcome of the node parameter updates, r the poll that ends the wait or
\* a failing one for the timeout
PeerMount ==
    /\ ~peer.isConnected
    /\ \E d \in ToolOutputs, authOk \in BOOLEAN :
         IF ~discoverTarget(d) \/ (hasCredentials /\ ~authOk)
           THEN UNCHANGED <<session, peer>>
           ELSE \E l \in ToolOutputs :
                  /\ loginPossible(l)
                  /\ IF ~loginTarget(l)
                       THEN session' = sessionAfterLogin(l) /\ UNCHANGED peer
                       ELSE \E r \in PollResults :
                              IF pollAccepted(r)
                                THEN /\ session' = sessionAfterLogin(l)
                                     /\ peer' = [isConnected |-> TRUE,
                                                 devicePath |-> r.path]
                                ELSE /\ \E lo \in ToolOutputs :
                                          session' = IF ~lo.err THEN FALSE
                                                     ELSE sessionAfterLogin(l)
                                     /\ UNCHANGED peer
    /\ UNCHANGED <<conf, isConnected, devicePath, lockW, lockR,
                   pc, op, ret, trace, pre, elapsed, found,
                   acc, lastq, disks, diskVars, storageId, ctlCore>>

\* the peer's UnmountStorage: logoutTarget by -T iqn -p portal,
\* cleanupDiscovery, then the path and the flag are cleared
PeerUnmount ==
    /\ peer.isConnected
    /\ \E lo \in ToolOutputs : session' = sessionAfterLogout(lo)
    /\ peer' = NoPeer
    /\ UNCHANGED <<conf, isConnected, devicePath, lockW, lockR,
                   pc, op, ret, trace, pre, elapsed, found,
                   acc, lastq, disks, diskVars, storageId, ctlCore>>

\* one goroutine on the instance, one on the peer
SharedNext ==
    \/ Lock(1)
    \/ MethodStep(1)
    \/ Unlock(1)
    \/ PeerMount
    \/ PeerUnmount

(***************************************************************************)
(* Control plane: SIscsiStorageDriver.ValidateCreateData.                  *)
(*                                                                         *)
(* A string is a sequence of lexical tokens: an address literal, a port    *)
(* number, a qualified name, a separator, a whitespace character or a      *)
(* credential character. len(s) == 0 is s = <<>>.                          *)
(***************************************************************************)
Space == " "
Colon == ":"
\* the characters of " \t\n\r"
Whitespace == {" ", "\t", "\n", "\r"}

\* tokens that stand for a run of one character repeated, with the length of
\* the run
RunLength ==
    [tok \in {"x{253}", "x{254}", "n{198}", "n{199}"} |->
        CASE tok = "x{253}" -> 253
          [] tok = "x{254}" -> 254
          [] tok = "n{198}" -> 198
          [] tok = "n{199}" -> 199]
TokLen(tok) == IF tok \in DOMAIN RunLength THEN RunLength[tok] ELSE Len(tok)
\* len(s)
RECURSIVE StrLen(_)
StrLen(s) == IF s = <<>> THEN 0 ELSE TokLen(Head(s)) + StrLen(Tail(s))

RECURSIVE TrimLeft(_)
TrimLeft(s) ==
    IF s # <<>> /\ Head(s) \in Whitespace THEN TrimLeft(Tail(s)) ELSE s
RECURSIVE TrimRight(_)
TrimRight(s) ==
    IF s # <<>> /\ s[Len(s)] \in Whitespace
      THEN TrimRight(SubSeq(s, 1, Len(s) - 1))
      ELSE s
\* strings.TrimSpace
TrimSpace(s) == TrimRight(TrimLeft(s))

\* strings.ContainsAny(s, " \t\n\r")
ContainsSpace(s) == \E i \in 1..Len(s) : s[i] \in Whitespace

\* the tokens net.ParseIP accepts: IPv4 and IPv6 literals
IpLiterals == {"10.0.0.1", "10.0.0.2"}
Ip6Literals == {"::1", "fe80::1"}
\* net.ParseIP(s) != nil: the whole string is one address literal
ParseIP(s) == Len(s) = 1 /\ s[1] \in IpLiterals \cup Ip6Literals

\* the pattern ^iqn\.\d{4}-\d{2}\.([a-zA-Z0-9\-\.]+):([a-zA-Z0-9\-\._:]+)$ on
\* tokens: \d{4}, \d{2}, [a-zA-Z0-9\-\.]+ and the tokens of [a-zA-Z0-9\-\._:]+
Digits4 == {"2023", "1999"}
Digits2 == {"01", "12", "23"}
AuthorityToks == {"com.example", "org.storage-1", "23"}
NameToks ==
    {"target01", "target02", "storage.target_01", "n{198}", "n{199}", "n", ":"}
\* regexp.MatchString(iqnPattern, iqn)
iqnMatches(s) ==
    /\ Len(s) >= 8
    /\ s[1] = "iqn."
    /\ s[2] \in Digits4
    /\ s[3] = "-"
    /\ s[4] \in Digits2
    /\ s[5] = "."
    /\ s[6] \in AuthorityToks
    /\ s[7] = Colon
    /\ \A i \in 8..Len(s) : s[i] \in NameToks

\* strconv.Atoi of a port token: the number, or -1 when err != nil
Atoi(tok) ==
    CASE tok = "3260" -> 3260
      [] tok = "3261" -> 3261
      [] tok = "0" -> 0
      [] tok = "1" -> 1
      [] tok = "65535" -> 65535
      [] tok = "65536" -> 65536
      [] tok = "-1" -> -1
      [] OTHER -> -1
AtoiFails(tok) ==
    tok \notin {"3260", "3261", "0", "1", "65535", "65536", "-1"}

\* net.SplitHostPort on tokens: host ":" port, or "[" host "]" ":" port, the
\* host or the port possibly empty; a host with a colon of its own has to be
\* bracketed
SplitHostPort(s) ==
    IF Len(s) \in {1, 2} /\ s[1] = Colon
      THEN [ok |-> TRUE, host |-> "", port |-> IF Len(s) = 2 THEN s[2] ELSE ""]
    ELSE IF Len(s) \in {2, 3} /\ s[2] = Colon
         /\ s[1] \notin Ip6Literals \cup {"[", "]", Colon}
      THEN [ok |-> TRUE, host |-> s[1], port |-> IF Len(s) = 3 THEN s[3] ELSE ""]
    ELSE IF Len(s) \in {4, 5} /\ s[1] = "[" /\ s[3] = "]" /\ s[4] = Colon
      THEN [ok |-> TRUE, host |-> s[2], port |-> IF Len(s) = 5 THEN s[5] ELSE ""]
    ELSE [ok |-> FALSE, host |-> "", port |-> ""]

NoErr == [kind |-> "", field |-> "", tuple |-> <<>>]
Err(kind, field) == [kind |-> kind, field |-> field, tuple |-> <<>>]

\* validateTargetAddress: nil iff the target parses as an IP address
validateTargetAddress(target) == target # <<>> /\ ParseIP(target)

\* variant: no limit on the length
iqnErrorUnbounded(iqn) ==
    IF Len(iqn) = 0 THEN "IQN cannot be empty"
    ELSE IF ~iqnMatches(iqn)
      THEN "IQN format must be 'iqn.yyyy-mm.naming-authority:unique-name'"
    ELSE ""

\* validateIQN: the error message, "" for nil
iqnError(iqn) ==
    IF Len(iqn) = 0 THEN "IQN cannot be empty"
    ELSE IF ~iqnMatches(iqn)
      THEN "IQN format must be 'iqn.yyyy-mm.naming-authority:unique-name'"
    ELSE IF StrLen(iqn) > MaxIqnLen
      THEN "IQN length cannot exceed 223 characters"
    ELSE ""

\* validateIQN: nil iff the name matches the pattern and is short enough
validateIQN(iqn) == iqnError(iqn) = ""

\* variant: port 0 passes the range check
portalErrorFromZero(portal) ==
    IF Len(portal) = 0 THEN "portal address cannot be empty"
    ELSE IF ~SplitHostPort(portal).ok
      THEN "invalid portal format, expected 'IP:port'"
    ELSE IF ~ParseIP(<<SplitHostPort(portal).host>>)
      THEN "invalid IP address in portal"
    ELSE IF AtoiFails(SplitHostPort(portal).port) THEN "invalid port number"
    ELSE IF Atoi(SplitHostPort(portal).port) < 0
            \/ Atoi(SplitHostPort(portal).port) > 65535
      THEN "port number must be between 1 and 65535"
    ELSE ""

\* validatePortalAddress: the error message, "" for nil
portalError(portal) ==
    IF Len(portal) = 0 THEN "portal address cannot be empty"
    ELSE IF ~SplitHostPort(portal).ok
      THEN "invalid portal format, expected 'IP:port'"
    ELSE IF ~ParseIP(<<SplitHostPort(portal).host>>)
      THEN "invalid IP address in portal"
    ELSE IF AtoiFails(SplitHostPort(portal).port) THEN "invalid port number"
    ELSE IF Atoi(SplitHostPort(portal).port) < 1
            \/ Atoi(SplitHostPort(portal).port) > 65535
      THEN "port number must be between 1 and 65535"
    ELSE ""

\* validatePortalAddress: net.SplitHostPort, net.ParseIP(host), Atoi(port),
\* 1 <= port <= 65535
validatePortalAddress(portal) == portalError(portal) = ""

\* variant: only the username is required to come with a password
authErrorOneSided(username, password) ==
    IF Len(username) > 0 /\ Len(password) = 0
      THEN "password is required when username is provided"
    ELSE IF Len(username) > 0 /\ StrLen(username) > MaxAuthLen
      THEN "username length cannot exceed 255 characters"
    ELSE IF Len(username) > 0 /\ ContainsSpace(username)
      THEN "username cannot contain whitespace characters"
    ELSE IF Len(password) > 0 /\ StrLen(password) > MaxAuthLen
      THEN "password length cannot exceed 255 characters"
    ELSE ""

\* validateAuthParams: the error message, "" for nil
authError(username, password) ==
    IF Len(username) > 0 /\ Len(password) = 0
      THEN "password is required when username is provided"
    ELSE IF Len(password) > 0 /\ Len(username) = 0
      THEN "username is required when password is provided"
    ELSE IF Len(username) > 0 /\ StrLen(username) > MaxAuthLen
      THEN "username length cannot exceed 255 characters"
    ELSE IF Len(username) > 0 /\ ContainsSpace(username)
      THEN "username cannot contain whitespace characters"
    ELSE IF Len(password) > 0 /\ StrLen(password) > MaxAuthLen
      THEN "password length cannot exceed 255 characters"
    ELSE ""

\* validateAuthParams: nil iff the pair passes the pairing, length and
\* whitespace checks
validateAuthParams(username, password) == authError(username, password) = ""

\* variant: the LUN stays as the request gave it
defaultLunIdKept(lunId) == lunId

\* ValidateCreateData: if input.IscsiLunId < 0 { input.IscsiLunId = 0 }
defaultLunId(lunId) == IF lunId < 0 THEN 0 ELSE lunId

\* the identity checkDuplicateStorage reads off a persisted record
StoredTuple(rec) ==
    <<rec.conf.target, rec.conf.iqn, rec.conf.portal, rec.conf.lunId>>

\* variant: the scan does not compare the LUN
sameIdentityIgnoringLun(input, rec) ==
    /\ input.target = rec.conf.target
    /\ input.iqn = rec.conf.iqn
    /\ input.portal = rec.conf.portal

\* checkDuplicateStorage: the comparison of the input with one record
sameIdentity(input, rec) ==
    /\ input.target = rec.conf.target
    /\ input.iqn = rec.conf.iqn
    /\ input.portal = rec.conf.portal
    /\ input.lunId = rec.conf.lunId

\* checkDuplicateStorage: fetch the iSCSI storages and return a duplicate
\* error naming the first record that has the identity of the input
checkDuplicateStorage(input, table, fetchOk) ==
    IF ~fetchOk THEN Err("General", "")
    ELSE IF \E i \in 1..Len(table) : sameIdentity(input, table[i])
      THEN LET i == CHOOSE j \in 1..Len(table) :
                      /\ sameIdentity(input, table[j])
                      /\ \A k \in 1..(j - 1) : ~sameIdentity(input, table[k])
           IN [kind |-> "DuplicateResource", field |-> "",
               tuple |-> StoredTuple(table[i])]
      ELSE NoErr

\* input.StorageConf = jsonutils.NewDict()
EmptyConf ==
    [written |-> FALSE, target |-> <<>>, iqn |-> <<>>, portal |-> <<>>,
     username |-> <<>>, password |-> <<>>, lunId |-> 0]

\* input.StorageConf.Update(jsonutils.Marshal(iscsiConf))
StoredConf(input) ==
    [written |-> TRUE,
     target |-> TrimSpace(input.target),
     iqn |-> TrimSpace(input.iqn),
     portal |-> TrimSpace(input.portal),
     username |-> TrimSpace(input.username),
     password |-> TrimSpace(input.password),
     lunId |-> input.lunId]

\* the checks of ValidateCreateData that precede the duplicate scan, in order
formatError(input) ==
    IF Len(input.target) = 0 THEN Err("MissingParameter", "iscsi_target")
    ELSE IF ~validateTargetAddress(input.target)
      THEN Err("InputParameter", "iscsi_target")
    ELSE IF Len(input.iqn) = 0 THEN Err("MissingParameter", "iscsi_iqn")
    ELSE IF ~validateIQN(input.iqn) THEN Err("InputParameter", "iscsi_iqn")
    ELSE IF Len(input.portal) = 0 THEN Err("MissingParameter", "iscsi_portal")
    ELSE IF ~validatePortalAddress(input.portal)
      THEN Err("InputParameter", "iscsi_portal")
    ELSE IF ~validateAuthParams(input.username, input.password)
      THEN Err("InputParameter", "authentication")
    ELSE NoErr

\* testIscsiConnection, testIscsiConnectionUpdate: net.SplitHostPort and
\* strconv.Atoi of the port succeed, so that net.DialTimeout is called
portalParses(portal) ==
    SplitHostPort(portal).ok /\ ~AtoiFails(SplitHostPort(portal).port)

\* testIscsiConnection: nil iff the portal parses and net.DialTimeout to it
\* succeeds
testIscsiConnection(input, dialOk) == portalParses(input.portal) /\ dialOk

\* variant: the portal is probed before the table is scanned for a duplicate
ValidateCreateDataProbesFirst(input, table, fetchOk, dialOk) ==
    LET in == [input EXCEPT !.lunId = defaultLunId(@)] IN
    IF formatError(input) # NoErr
      THEN [err |-> formatError(input), conf |-> EmptyConf, dialed |-> FALSE]
    ELSE IF ~testIscsiConnection(in, dialOk)
      THEN [err |-> Err("BadRequest", "connection"), conf |-> EmptyConf,
            dialed |-> portalParses(in.portal)]
    ELSE IF checkDuplicateStorage(in, table, fetchOk) # NoErr
      THEN [err |-> checkDuplicateStorage(in, table, fetchOk),
            conf |-> EmptyConf, dialed |-> portalParses(in.portal)]
    ELSE [err |-> NoErr, conf |-> StoredConf(in), dialed |-> TRUE]

\* variant: the configuration is stored before the portal is probed
ValidateCreateDataStoresEarly(input, table, fetchOk, dialOk) ==
    LET in == [input EXCEPT !.lunId = defaultLunId(@)] IN
    IF formatError(input) # NoErr
      THEN [err |-> formatError(input), conf |-> EmptyConf, dialed |-> FALSE]
    ELSE IF checkDuplicateStorage(in, table, fetchOk) # NoErr
      THEN [err |-> checkDuplicateStorage(in, table, fetchOk),
            conf |-> EmptyConf, dialed |-> FALSE]
    ELSE IF ~testIscsiConnection(in, dialOk)
      THEN [err |-> Err("BadRequest", "connection"), conf |-> StoredConf(in),
            dialed |-> portalParses(in.portal)]
    ELSE [err |-> NoErr, conf |-> StoredConf(in), dialed |-> TRUE]

\* ValidateCreateData on the table as the scan's query sees it; fetchOk and
\* dialOk are the outcomes of the query and of net.DialTimeout. dialed says
\* whether net.DialTimeout was called
ValidateCreateData(input, table, fetchOk, dialOk) ==
    LET in == [input EXCEPT !.lunId = defaultLunId(@)] IN
    IF formatError(input) # NoErr
      THEN [err |-> formatError(input), conf |-> EmptyConf, dialed |-> FALSE]
    ELSE IF checkDuplicateStorage(in, table, fetchOk) # NoErr
      THEN [err |-> checkDuplicateStorage(in, table, fetchOk),
            conf |-> EmptyConf, dialed |-> FALSE]
    ELSE IF ~testIscsiConnection(in, dialOk)
      THEN [err |-> Err("BadRequest", "connection"), conf |-> EmptyConf,
            dialed |-> portalParses(in.portal)]
    ELSE [err |-> NoErr, conf |-> StoredConf(in), dialed |-> TRUE]

\* testIscsiConnectionUpdate: the persisted target, iqn and portal are all
\* present, the portal parses and net.DialTimeout to it succeeds
testIscsiConnectionUpdate(c, dialOk) ==
    /\ ~(Len(c.target) = 0 \/ Len(c.iqn) = 0 \/ Len(c.portal) = 0)
    /\ portalParses(c.portal)
    /\ dialOk

\* testIscsiConnectionUpdate reaches net.DialTimeout
updateDials(c) ==
    /\ ~(Len(c.target) = 0 \/ Len(c.iqn) = 0 \/ Len(c.portal) = 0)
    /\ portalParses(c.portal)

\* input.StorageConf.Set("username", ...), Set("password", ...): each one only
\* when the request carries it
setCredentials(input, c) ==
    LET c1 == IF Len(input.username) > 0
                THEN [c EXCEPT !.username = TrimSpace(input.username),
                               !.written = TRUE]
                ELSE c
    IN IF Len(input.password) > 0
         THEN [c1 EXCEPT !.password = TrimSpace(input.password),
                         !.written = TRUE]
         ELSE c1

\* SBaseStorageDriver.ValidateUpdateData: the request goes through as it is
baseValidateUpdateData(c, flag, dialed) ==
    [err |-> NoErr, conf |-> c, flag |-> flag, dialed |-> dialed]

\* variant: the connection test runs whether or not credentials are supplied
ValidateUpdateDataAlwaysProbes(input, c, dialOk) ==
    IF ~validateAuthParams(input.username, input.password)
      THEN [err |-> Err("InputParameter", "authentication"),
            conf |-> c, flag |-> input.updateConf, dialed |-> FALSE]
    ELSE IF ~testIscsiConnectionUpdate(setCredentials(input, c), dialOk)
      THEN [err |-> Err("BadRequest", "connection"),
            conf |-> setCredentials(input, c),
            flag |-> input.updateConf
                       \/ Len(input.username) > 0 \/ Len(input.password) > 0,
            dialed |-> updateDials(setCredentials(input, c))]
    ELSE baseValidateUpdateData(setCredentials(input, c),
                                input.updateConf \/ Len(input.username) > 0
                                  \/ Len(input.password) > 0, TRUE)

\* ValidateUpdateData on a request whose StorageConf is c and whose
\* UpdateStorageConf is input.updateConf; flag is input.UpdateStorageConf as
\* returned
ValidateUpdateData(input, c, dialOk) ==
    IF Len(input.username) > 0 \/ Len(input.password) > 0
      THEN IF ~validateAuthParams(input.username, input.password)
             THEN [err |-> Err("InputParameter", "authentication"),
                   conf |-> c, flag |-> input.updateConf, dialed |-> FALSE]
           ELSE IF ~testIscsiConnectionUpdate(setCredentials(input, c), dialOk)
             THEN [err |-> Err("BadRequest", "connection"),
                   conf |-> setCredentials(input, c), flag |-> TRUE,
                   dialed |-> updateDials(setCredentials(input, c))]
           ELSE baseValidateUpdateData(setCredentials(input, c), TRUE, TRUE)
      ELSE baseValidateUpdateData(c, input.updateConf, FALSE)

\* creation requests the API workers receive
TargetA == <<"10.0.0.1">>
IqnA == <<"iqn.", "2023", "-", "01", ".", "com.example", ":", "target01">>
PortalA == <<"10.0.0.1", ":", "3260">>
PortalB == <<"10.0.0.1", ":", "3261">>
\* (username, password): none, a pair, a username without its password
NoCredentials == <<<<>>, <<>>>>
BothCredentials == <<<<"u">>, <<"p">>>>
UserOnly == <<<<"u">>, <<>>>>
CreateInputs ==
    {[target |-> TargetA, iqn |-> IqnA, portal |-> p,
      username |-> c[1], password |-> c[2], lunId |-> l] :
        p \in {PortalA, PortalB}, c \in {NoCredentials, UserOnly},
        l \in {-1, 0, 1}}

IdleReq == [stage |-> "idle", conf |-> EmptyConf, err |-> NoErr]

CtlInit ==
    /\ storages = <<>>
    /\ reqs = [w \in Workers |-> IdleReq]

\* records validated and not yet inserted
Pending == {w \in Workers : reqs[w].stage = "validated"}

\* an API worker receives a creation request and runs ValidateCreateData (a
\* request is accepted only while the table has room for its record)
ValidateCreate(w) ==
    /\ reqs[w].stage = "idle"
    /\ \E input \in CreateInputs, fetchOk \in BOOLEAN, dialOk \in BOOLEAN :
         LET r == ValidateCreateData(input, storages, fetchOk, dialOk) IN
         /\ r.err = NoErr => Len(storages) + Cardinality(Pending) < MaxStorages
         /\ reqs' = [reqs EXCEPT ![w] =
                      [stage |-> IF r.err = NoErr THEN "validated" ELSE "rejected",
                       conf |-> r.conf, err |-> r.err]]
    /\ UNCHANGED <<storages, hostVars, valVars, postVars>>

\* the caller of ValidateCreateData inserts the record it validated
Persist(w) ==
    /\ reqs[w].stage = "validated"
    /\ storages' = Append(storages, [id |-> Len(storages) + 1,
                                      conf |-> reqs[w].conf,
                                      status |-> Offline, cacheId |-> NoCache])
    /\ reqs' = [reqs EXCEPT ![w] = IdleReq]
    /\ UNCHANGED <<hostVars, valVars, postVars>>

\* the error of ValidateCreateData goes back to the client
Reject(w) ==
    /\ reqs[w].stage = "rejected"
    /\ reqs' = [reqs EXCEPT ![w] = IdleReq]
    /\ UNCHANGED <<storages, hostVars, valVars, postVars>>

CreateNext ==
    \E w \in Workers :
        \/ ValidateCreate(w)
        \/ Persist(w)
        \/ Reject(w)

(***************************************************************************)
(* The validators called once: ValidateCreateData on a creation request    *)
(* and a table, ValidateUpdateData on an update request and the            *)
(* configuration the record carries.                                       *)
(***************************************************************************)
\* field values a request can carry: absent, well-formed, malformed
HostName == <<"storage.example.com">>
BareName == <<"target01">>
PortalNoPort == <<"10.0.0.1">>
PortalBadPort == <<"10.0.0.1", ":", "65536">>
\* (username, password) with a missing half or with whitespace
PassOnly == <<<<>>, <<"p">>>>
\* a username of 256 characters
LongUser == <<<<"x{254}", "u", "v">>, <<"p">>>>
BlankPassword == <<<<"u">>, <<Space>>>>
PaddedPassword == <<<<"u">>, <<Space, "p", Space>>>>
SpacedUser == <<<<"u", Space>>, <<"p">>>>
Credentials ==
    {NoCredentials, BothCredentials, UserOnly, PassOnly,
     BlankPassword, PaddedPassword, SpacedUser, LongUser}

\* api.StorageCreateInput: the iSCSI fields
ValCreateInputs ==
    {[target |-> t, iqn |-> q, portal |-> p,
      username |-> c[1], password |-> c[2], lunId |-> l] :
        t \in {<<>>, TargetA, HostName}, q \in {<<>>, IqnA, BareName},
        p \in {<<>>, PortalA, PortalNoPort, PortalBadPort},
        c \in Credentials, l \in {-1, 0, 255, 256}}

\* api.StorageUpdateInput: IscsiUsername and IscsiPassword
ValUpdateInputs ==
    {[target |-> <<>>, iqn |-> <<>>, portal |-> <<>>,
      username |-> c[1], password |-> c[2], lunId |-> 0, updateConf |-> f] :
        c \in Credentials, f \in BOOLEAN}

\* the configuration of a record as ValidateCreateData wrote it
ConfA ==
    [written |-> TRUE, target |-> TargetA, iqn |-> IqnA, portal |-> PortalA,
     username |-> <<>>, password |-> <<>>, lunId |-> 0]
\* input.StorageConf of an update request: a created record's configuration,
\* without or with credentials, one that lacks the portal, an empty one
ValUpdateConfs ==
    {ConfA,
     [ConfA EXCEPT !.username = <<"v">>, !.password = <<"q">>],
     [ConfA EXCEPT !.portal = <<>>],
     EmptyConf}

\* arguments of the field validators: usernames and passwords around the
\* length limit and with each whitespace character, portals and qualified
\* names in and out of form
AuthUsers ==
    {<<>>, <<"u">>, <<"x{254}", "u">>, <<"x{254}", "u", "v">>, <<"u", Space>>,
     <<"u", "\t", "v">>, <<"\n", "u">>, <<"u", "\r">>}
AuthPasswords ==
    {<<>>, <<"p">>, <<"x{254}", "p">>, <<"x{254}", "p", "q">>,
     <<"p", Space, "q">>, <<Space>>}
PortalStrings ==
    {<<>>, PortalA, PortalNoPort, PortalBadPort,
     <<"10.0.0.1", ":", "1">>, <<"10.0.0.1", ":", "65535">>,
     <<"10.0.0.1", ":", "0">>, <<"10.0.0.1", ":", "-1">>,
     <<"10.0.0.1", ":", "abc">>, <<"10.0.0.1", ":">>, <<":", "3260">>,
     <<"[", "::1", "]", ":", "3260">>, <<"[", "fe80::1", "]", ":", "65536">>,
     <<"::1", ":", "3260">>, <<"[", "10.0.0.2", "]", ":", "3260">>,
     <<"999.1.1.1", ":", "3260">>, <<"storage.example.com", ":", "3260">>,
     <<"[", "storage.example.com", "]", ":", "3260">>}
IqnPrefix == <<"iqn.", "2023", "-", "01", ".", "com.example", ":">>
IqnStrings ==
    {<<>>, IqnA, BareName,
     <<"2023", "-", "01", ".", "com.example", ":", "target01">>,
     <<"iqn.", "23", "-", "01", ".", "com.example", ":", "target01">>,
     <<"iqn.", "2023", "-", "1", ".", "com.example", ":", "target01">>,
     <<"iqn.", "2023", "-", "01", ".", "com.example">>,
     <<"iqn.", "2023", "-", "01", ".", "com.example", ":">>,
     <<"iqn.", "2023", "-", "01", ".", "com_example", ":", "target01">>,
     <<"iqn.", "1999", "-", "12", ".", "org.storage-1", ":",
       "storage.target_01", ":", "target02">>,
     <<"iqn.", "2023", "-", "01", ".", "com.example", ":", "tar get">>,
     IqnPrefix \o <<"n{198}", "n">>, IqnPrefix \o <<"n{199}">>,
     IqnPrefix \o <<"n{199}", "n">>, IqnPrefix \o <<"n{199}", ":", "n">>,
     <<"2023", "-", "01", ".", "com.example", ":", "n{199}", "n">>}
FieldInput(q, p, u, w) ==
    [target |-> <<>>, iqn |-> q, portal |-> p, username |-> u, password |-> w,
     lunId |-> 0, updateConf |-> FALSE]

NoOut ==
    [done |-> FALSE, err |-> NoErr, conf |-> EmptyConf, flag |-> FALSE,
     dialed |-> FALSE, msg |-> ""]

\* no validator call in flight
ValIdle ==
    /\ vin = [op |-> "none", input |-> CHOOSE i \in ValUpdateInputs :
                                          /\ i.username = <<>>
                                          /\ i.password = <<>>
                                          /\ ~i.updateConf,
              conf |-> EmptyConf]
    /\ vout = NoOut

\* a creation request arrives with the table empty or holding one record;
\* an update request arrives with the record's configuration
ValInit ==
    /\ \/ /\ storages \in {<<>>, <<[id |-> 1, conf |-> ConfA, status |-> Offline,
                                    cacheId |-> NoCache]>>}
          /\ \E i \in ValCreateInputs :
               vin = [op |-> "create", input |-> i, conf |-> EmptyConf]
       \/ /\ storages = <<>>
          /\ \E i \in ValUpdateInputs, c \in ValUpdateConfs :
               vin = [op |-> "update", input |-> i, conf |-> c]
       \/ /\ storages = <<>>
          /\ \E u \in AuthUsers, w \in AuthPasswords :
               vin = [op |-> "auth", input |-> FieldInput(<<>>, <<>>, u, w),
                      conf |-> EmptyConf]
       \/ /\ storages = <<>>
          /\ \E p \in PortalStrings :
               vin = [op |-> "portal",
                      input |-> FieldInput(<<>>, p, <<>>, <<>>),
                      conf |-> EmptyConf]
       \/ /\ storages = <<>>
          /\ \E q \in IqnStrings :
               vin = [op |-> "iqn", input |-> FieldInput(q, <<>>, <<>>, <<>>),
                      conf |-> EmptyConf]
    /\ vout = NoOut
    /\ reqs = [w \in Workers |-> IdleReq]

\* the API calls the driver's ValidateCreateData on the request
CallValidateCreate ==
    /\ vin.op = "create"
    /\ ~vout.done
    /\ \E fetchOk \in BOOLEAN, dialOk \in BOOLEAN :
         LET r == ValidateCreateData(vin.input, storages, fetchOk, dialOk) IN
         vout' = [done |-> TRUE, err |-> r.err, conf |-> r.conf,
                  flag |-> FALSE, dialed |-> r.dialed, msg |-> ""]
    /\ UNCHANGED <<vin, storages, reqs, hostVars, postVars>>

\* the API calls the driver's ValidateUpdateData on the request
CallValidateUpdate ==
    /\ vin.op = "update"
    /\ ~vout.done
    /\ \E dialOk \in BOOLEAN :
         LET r == ValidateUpdateData(vin.input, vin.conf, dialOk) IN
         vout' = [done |-> TRUE, err |-> r.err, conf |-> r.conf,
                  flag |-> r.flag, dialed |-> r.dialed, msg |-> ""]
    /\ UNCHANGED <<vin, storages, reqs, hostVars, postVars>>

\* validateAuthParams called on a username and a password
CallValidateAuthParams ==
    /\ vin.op = "auth"
    /\ ~vout.done
    /\ vout' = [NoOut EXCEPT !.done = TRUE,
                             !.msg = authError(vin.input.username,
                                               vin.input.password)]
    /\ UNCHANGED <<vin, storages, reqs, hostVars, postVars>>

\* validatePortalAddress called on a portal string
CallValidatePortalAddress ==
    /\ vin.op = "portal"
    /\ ~vout.done
    /\ vout' = [NoOut EXCEPT !.done = TRUE,
                             !.msg = portalError(vin.input.portal)]
    /\ UNCHANGED <<vin, storages, reqs, hostVars, postVars>>

\* validateIQN called on a qualified name
CallValidateIQN ==
    /\ vin.op = "iqn"
    /\ ~vout.done
    /\ vout' = [NoOut EXCEPT !.done = TRUE, !.msg = iqnError(vin.input.iqn)]
    /\ UNCHANGED <<vin, storages, reqs, hostVars, postVars>>

ValidateNext ==
    \/ CallValidateCreate
    \/ CallValidateUpdate
    \/ CallValidateAuthParams
    \/ CallValidatePortalAddress
    \/ CallValidateIQN

(***************************************************************************)
(* SIscsiStorageDriver.PostCreate, run once for each persisted record, the *)
(* runs of different records interleaving at the persistence operations.   *)
(***************************************************************************)
Records == 1..NumRecords

\* same target, IQN and portal: the LUN is not compared
sameConnectionWithLun(a, b) ==
    /\ a.conf.target = b.conf.target
    /\ a.conf.iqn = b.conf.iqn
    /\ a.conf.portal = b.conf.portal
    /\ a.conf.lunId = b.conf.lunId

\* PostCreate: currentTarget == existingTarget && currentIqn == existingIqn &&
\* currentPortal == existingPortal
sameConnection(a, b) ==
    /\ a.conf.target = b.conf.target
    /\ a.conf.iqn = b.conf.iqn
    /\ a.conf.portal = b.conf.portal

\* PostCreate, the loop over the fetched records: the positions of the
\* records other than the current one that have its connection and a cache
sharers(storage, seen) ==
    {i \in 1..Len(seen) :
        /\ seen[i].id # storage.id
        /\ sameConnection(storage, seen[i])
        /\ seen[i].cacheId # NoCache}

\* the loop takes the first of them
firstSharer(storage, seen) ==
    CHOOSE i \in sharers(storage, seen) :
        \A j \in sharers(storage, seen) : i <= j

\* db.Update(storage, func() { storage.Status = STORAGE_ONLINE })
setOnline(table, id, ok) ==
    IF ok THEN [table EXCEPT ![id].status = Online] ELSE table

\* variant: the update is applied although it reports an error
attachCacheDespiteError(table, id, c, ok) ==
    [table EXCEPT ![id].cacheId = c, ![id].status = Online]

\* variant: the update sets the status and leaves the cache reference
attachCacheStatusOnly(table, id, c, ok) ==
    IF ok THEN [table EXCEPT ![id].status = Online] ELSE table

\* db.Update(storage, func() { storage.StoragecacheId = c;
\*                             storage.Status = STORAGE_ONLINE })
attachCache(table, id, c, ok) ==
    IF ok
      THEN [table EXCEPT ![id].cacheId = c, ![id].status = Online]
      ELSE table

\* the cache record PostCreate builds for a storage; the insert gives it the
\* next free identifier
newCache(storage, table) ==
    [id |-> Len(table) + 1, name |-> <<"iscsi-cache-", storage.id>>,
     path |-> "DefaultImageCacheDir", externalId |-> storage.id]

\* a cache record that was provisioned before, for a storage outside the table
OldCache ==
    [id |-> 1, name |-> <<"iscsi-cache-", 0>>, path |-> "DefaultImageCacheDir",
     externalId |-> 0]

NoJob ==
    [pc |-> "new", pre |-> [id |-> 0, conf |-> EmptyConf, status |-> Offline,
                            cacheId |-> NoCache],
     seen |-> <<>>, scanned |-> FALSE, created |-> NoCache, failed |-> FALSE]

\* no PostCreate run
PostIdle ==
    /\ caches = <<>>
    /\ jobs = [id \in Records |-> NoJob]

\* the records have been persisted, with distinct LUNs behind one of two
\* portals; the first may carry a cache reference already
PostInit ==
    /\ \E portals \in [Records -> {PortalA, PortalB}], c \in {NoCache, OldCache.id} :
         storages =
           [id \in Records |->
              [id |-> id,
               conf |-> [ConfA EXCEPT !.portal = portals[id], !.lunId = id - 1],
               status |-> Offline,
               cacheId |-> IF id = 1 THEN c ELSE NoCache]]
    /\ caches = <<OldCache>>
    /\ jobs = [id \in Records |-> NoJob]
    /\ reqs = [w \in Workers |-> IdleReq]

SetJob(id, j) == jobs' = [jobs EXCEPT ![id] = j]

\* the creator of record id calls PostCreate(storage)
PostStart(id) ==
    /\ jobs[id].pc = "new"
    /\ SetJob(id, [jobs[id] EXCEPT !.pc = "check", !.pre = storages[id]])
    /\ UNCHANGED <<storages, caches, reqs, hostVars, valVars>>

\* variant: the cache reference of the record is not looked at
PostCheckAlwaysScans(id) ==
    /\ jobs[id].pc = "check"
    /\ SetJob(id, [jobs[id] EXCEPT !.pc = "fetch"])
    /\ UNCHANGED <<storages, caches, reqs, hostVars, valVars>>

\* PostCreate: if len(storage.StoragecacheId) > 0 { update the status to
\* online; return }
PostCheck(id) ==
    /\ jobs[id].pc = "check"
    /\ IF jobs[id].pre.cacheId # NoCache
         THEN \E ok \in BOOLEAN :
                /\ storages' = setOnline(storages, id, ok)
                /\ SetJob(id, [jobs[id] EXCEPT !.pc = "done", !.failed = ~ok])
         ELSE /\ SetJob(id, [jobs[id] EXCEPT !.pc = "fetch"])
              /\ UNCHANGED storages
    /\ UNCHANGED <<caches, reqs, hostVars, valVars>>

\* PostCreate: db.FetchModelObjects of the iSCSI storages; on error return
PostFetch(id) ==
    /\ jobs[id].pc = "fetch"
    /\ \E ok \in BOOLEAN :
         SetJob(id, IF ok
                      THEN [jobs[id] EXCEPT !.pc = "scan", !.seen = storages,
                                            !.scanned = TRUE]
                      ELSE [jobs[id] EXCEPT !.pc = "done", !.failed = TRUE])
    /\ UNCHANGED <<storages, caches, reqs, hostVars, valVars>>

\* PostCreate: the loop over the fetched records; with a sharer, take its
\* cache reference and go online; without one, insert a new cache record
PostScan(id) ==
    /\ jobs[id].pc = "scan"
    /\ \E ok \in BOOLEAN :
         IF sharers(jobs[id].pre, jobs[id].seen) # {}
           THEN /\ storages' =
                     attachCache(storages, id,
                         jobs[id].seen[firstSharer(jobs[id].pre, jobs[id].seen)].cacheId,
                         ok)
                /\ SetJob(id, [jobs[id] EXCEPT !.pc = "done", !.failed = ~ok])
                /\ UNCHANGED caches
           ELSE /\ caches' = IF ok THEN Append(caches, newCache(jobs[id].pre, caches))
                                   ELSE caches
                /\ SetJob(id, IF ok
                                THEN [jobs[id] EXCEPT !.pc = "attach",
                                        !.created = newCache(jobs[id].pre, caches).id]
                                ELSE [jobs[id] EXCEPT !.pc = "done", !.failed = TRUE])
                /\ UNCHANGED storages
    /\ UNCHANGED <<reqs, hostVars, valVars>>

\* PostCreate: db.Update of the record with sc.Id and the online status
PostAttach(id) ==
    /\ jobs[id].pc = "attach"
    /\ \E ok \in BOOLEAN :
         /\ storages' = attachCache(storages, id, jobs[id].created, ok)
         /\ SetJob(id, [jobs[id] EXCEPT !.pc = "done", !.failed = ~ok])
    /\ UNCHANGED <<caches, reqs, hostVars, valVars>>

PostNext ==
    \E id \in Records :
        \/ PostStart(id)
        \/ PostCheck(id)
        \/ PostFetch(id)
        \/ PostScan(id)
        \/ PostAttach(id)

(***************************************************************************)
(* The disk list: GetDiskById, CreateDisk and RemoveDisk, each under       *)
(* s.DiskLock. A goroutine blocked in DiskLock.Lock() stays where it is    *)
(* until the mutex is free; the mutex does not know its holder, so a       *)
(* goroutine that holds it and locks it again waits like any other.        *)
(***************************************************************************)
MaxDisks == 2
DiskIds == {"disk1", "disk2"}
DiskMethods == {"GetDiskById", "CreateDisk", "RemoveDisk"}
HasDisk(id) == \E i \in 1..Len(disks) : disks[i] = id
\* RemoveDisk: the list without the first disk of that id
WithoutFirst(list, id) ==
    IF \E i \in 1..Len(list) : list[i] = id
      THEN LET i == CHOOSE i \in 1..Len(list) :
                        list[i] = id /\ \A j \in 1..(i - 1) : list[j] # id
           IN  SubSeq(list, 1, i - 1) \o SubSeq(list, i + 1, Len(list))
      ELSE list

\* the calls under way that can add a disk; the list is kept within MaxDisks
Appending == {"GetDiskById", "CreateDisk"}
AppendersInFlight == {u \in Threads : op[u] \in Appending}

diskFrame ==
    <<conf, isConnected, devicePath, lockW, lockR, session, trace, pre,
      elapsed, found, acc, lastq, scan, storageId, peer, ctlCore>>

\* a goroutine calls one of the disk methods
DiskCall(t) ==
    /\ pc[t] = "idle"
    /\ \E m \in DiskMethods, id \in DiskIds :
         /\ m \in Appending => Len(disks) + Cardinality(AppendersInFlight) < MaxDisks
         /\ op' = [op EXCEPT ![t] = m]
         /\ diskId' = [diskId EXCEPT ![t] = id]
    /\ Goto(t, "d_lock")
    /\ UNCHANGED <<diskFrame, disks, diskLock, ret>>

\* sync.Mutex.Lock: granted only when nobody holds the mutex
diskLockFree(t) == diskLock = NoThread

\* s.DiskLock.Lock(), first statement of the three methods; "c_lock" is the
\* Lock() of the CreateDisk that GetDiskById calls
DiskLockAcquire(t) ==
    /\ pc[t] \in {"d_lock", "c_lock"}
    /\ diskLockFree(t)
    /\ diskLock' = t
    /\ Goto(t, CASE pc[t] = "c_lock" -> "c_append"
                 [] op[t] = "GetDiskById" -> "d_scan"
                 [] op[t] = "CreateDisk" -> "d_append"
                 [] op[t] = "RemoveDisk" -> "d_remove")
    /\ UNCHANGED <<diskFrame, disks, diskId, op, ret>>

\* GetDiskById: the loop over s.Disks; without a match, s.CreateDisk(diskId)
GetDiskScan(t) ==
    /\ pc[t] = "d_scan"
    /\ Goto(t, IF HasDisk(diskId[t]) THEN "d_probe" ELSE "c_lock")
    /\ UNCHANGED <<diskFrame, disks, diskLock, diskId, op, ret>>

\* GetDiskById: Probe() of the disk found, or of the disk just created
GetDiskProbe(t) ==
    /\ pc[t] \in {"d_probe", "d_newprobe"}
    /\ \E ok \in BOOLEAN :
         ret' = [ret EXCEPT ![t] =
                   IF ok THEN "ok"
                   ELSE IF pc[t] = "d_probe" THEN "err" ELSE "ErrNotFound"]
    /\ Goto(t, "d_ret")
    /\ UNCHANGED <<diskFrame, disks, diskLock, diskId, op>>

\* CreateDisk: s.Disks = append(s.Disks, disk)
CreateDiskAppend(t) ==
    /\ pc[t] \in {"d_append", "c_append"}
    /\ disks' = Append(disks, diskId[t])
    /\ IF pc[t] = "c_append"
         THEN Goto(t, "c_ret") /\ UNCHANGED ret
         ELSE Goto(t, "d_ret") /\ ret' = [ret EXCEPT ![t] = "ok"]
    /\ UNCHANGED <<diskFrame, diskLock, diskId, op>>

\* RemoveDisk: the first disk of that id is taken out of s.Disks
RemoveDiskStep(t) ==
    /\ pc[t] = "d_remove"
    /\ disks' = WithoutFirst(disks, diskId[t])
    /\ ret' = [ret EXCEPT ![t] = "ok"]
    /\ Goto(t, "d_ret")
    /\ UNCHANGED <<diskFrame, diskLock, diskId, op>>

\* the deferred s.DiskLock.Unlock(); the one of the CreateDisk that
\* GetDiskById called gives control back to GetDiskById
DiskUnlock(t) ==
    /\ pc[t] \in {"d_ret", "c_ret"}
    /\ diskLock' = NoThread
    /\ IF pc[t] = "c_ret"
         THEN Goto(t, "d_newprobe") /\ UNCHANGED <<op, ret, diskId>>
         ELSE /\ Goto(t, "idle")
              /\ op' = [op EXCEPT ![t] = "none"]
              /\ ret' = [ret EXCEPT ![t] = "none"]
              /\ diskId' = [diskId EXCEPT ![t] = ""]
    /\ UNCHANGED <<diskFrame, disks>>

DiskNext ==
    \E t \in Threads :
        \/ DiskCall(t)
        \/ DiskLockAcquire(t)
        \/ GetDiskScan(t)
        \/ GetDiskProbe(t)
        \/ CreateDiskAppend(t)
        \/ RemoveDiskStep(t)
        \/ DiskUnlock(t)

(***************************************************************************)
(* findDevicePath: one scan of /dev/disk/by-path. Names of entries are     *)
(* "ip-" address "-iscsi-" name "-lun-" rest; strings are sequences of     *)
(* pieces, as on the control plane.                                        *)
(***************************************************************************)
MaxEntries == 2
ScanIqn == <<"iqn.2023-01.com.example:target01">>
ScanPortals == {PortalA, <<"[", "::1", "]", ":", "3260">>}
ScanLunIds == {0, 1}

\* fmt.Sprintf("%d", n) for n >= 0
DigitToks == <<"0", "1", "2", "3", "4", "5", "6", "7", "8", "9">>
RECURSIVE FormatInt(_)
FormatInt(n) ==
    IF n < 10 THEN <<DigitToks[n + 1]>>
    ELSE FormatInt(n \div 10) \o <<DigitToks[(n % 10) + 1]>>

\* strings.Split(s, ":")[0]: the text before the first colon of s
BeforeColon(tok) == IF tok = "fe80::1" THEN <<"fe80">> ELSE <<>>
RECURSIVE SplitFirst(_)
SplitFirst(s) ==
    IF s = <<>> THEN <<>>
    ELSE IF Head(s) \in {Colon} \cup Ip6Literals THEN BeforeColon(Head(s))
    ELSE <<Head(s)>> \o SplitFirst(Tail(s))

IsPrefix(a, b) == Len(a) <= Len(b) /\ SubSeq(b, 1, Len(a)) = a

\* the address the kernel names a session's devices by: host ":" port,
\* an IPv6 host without brackets
EntryAddr(portal) ==
    <<SplitHostPort(portal).host, Colon, SplitHostPort(portal).port>>

\* what can follow "-lun-": a LUN, a longer LUN, a partition of a LUN
EntryLuns == {<<"0">>, <<"1">>, <<"1", "0">>, <<"1", "-part1">>}
\* link is what filepath.EvalSymlinks gives, "" when it fails
EntryPool ==
    [addr : {EntryAddr(p) : p \in ScanPortals}, iqn : {ScanIqn},
     lun : EntryLuns, link : {""} \cup DevPaths]
      \cup {[addr |-> EntryAddr(PortalA), iqn |-> <<OtherIqn>>,
             lun |-> <<"0">>, link |-> "/dev/sdb"]}
Directories ==
    UNION {[1..n -> EntryPool] : n \in 0..MaxEntries}

\* regex.MatchString(entry.Name()) for the pattern
\* "ip-" targetIP ".*-iscsi-" iqn "-lun-" lunId, which is not anchored
matches(entry, targetIP, iqn, lunId) ==
    /\ IsPrefix(targetIP, entry.addr)
    /\ entry.iqn = iqn
    /\ IsPrefix(FormatInt(lunId), entry.lun)

\* the entries the loop returns from: matching, and resolved without error
Resolved(dir, targetIP, iqn, lunId) ==
    {i \in 1..Len(dir) :
        matches(dir[i], targetIP, iqn, lunId) /\ dir[i].link # ""}

\* a call of findDevicePath: portal and lunId of the instance, the directory
\* as os.ReadDir returns it, or its error
ScanInit ==
    \E p \in ScanPortals, l \in ScanLunIds, d \in Directories, e \in BOOLEAN :
        /\ e => d = <<>>
        /\ scan = [NoScan EXCEPT !.portal = p, !.lunId = l, !.dir = d,
                                 !.readErr = e]

FindDevicePath ==
    /\ ~scan.done
    /\ LET targetIP == SplitFirst(scan.portal)
           hits == Resolved(scan.dir, targetIP, ScanIqn, scan.lunId)
           first == CHOOSE i \in hits : \A j \in hits : i <= j
       IN  scan' =
             IF scan.readErr
               THEN [scan EXCEPT !.done = TRUE, !.err = "read", !.host = targetIP]
             ELSE IF hits = {}
               THEN [scan EXCEPT !.done = TRUE, !.err = "device not found",
                                 !.host = targetIP]
             ELSE [scan EXCEPT !.done = TRUE, !.path = scan.dir[first].link,
                               !.from = first, !.host = targetIP]
    /\ UNCHANGED <<hostCore, acc, lastq, disks, diskLock, diskId, storageId,
                   peer, ctlCore>>

ScanNext == FindDevicePath

(***************************************************************************)
(* Specifications: the instance under concurrent callers, and the creation *)
(* path under concurrent API workers.                                      *)
(***************************************************************************)
InitHost == HostInit /\ AuxIdle /\ CtlInit /\ ValIdle /\ PostIdle
SpecHost == InitHost /\ [][HostNext]_vars

InitCreate == HostIdle /\ AuxIdle /\ CtlInit /\ ValIdle /\ PostIdle
SpecCreate == InitCreate /\ [][CreateNext]_vars

InitValidate == HostIdle /\ AuxIdle /\ ValInit /\ PostIdle
SpecValidate == InitValidate /\ [][ValidateNext]_vars

InitPost == HostIdle /\ AuxIdle /\ PostInit /\ ValIdle
SpecPost == InitPost /\ [][PostNext]_vars

\* Accessible, MountStorage and UnmountStorage called concurrently on one
\* instance that is configured with credentials
InitAccess == HostAuthIdle /\ AuxIdle /\ CtlInit /\ ValIdle /\ PostIdle
SpecAccess == InitAccess /\ [][AccessNext]_vars

\* the instance of a persisted record, set up by SetStorageInfo with or
\* without the id of the record, holding no disk or one
InitQuery ==
    /\ HostAuthIdle
    /\ acc = [t \in Threads |-> NoAcc]
    /\ lastq = NoQuery
    /\ disks = <<"disk1">>
    /\ DiskIdle
    /\ storageId \in {NoStorageId, 1}
    /\ peer = NoPeer
    /\ storages = <<[id |-> 1, conf |-> ConfA, status |-> Offline,
                     cacheId |-> NoCache]>>
    /\ reqs = [w \in Workers |-> IdleReq]
    /\ ValIdle
    /\ PostIdle
SpecQuery == InitQuery /\ [][QueryNext]_vars

\* two instances on one host that share (iqn, portal)
InitShared == HostAuthIdle /\ AuxIdle /\ CtlInit /\ ValIdle /\ PostIdle
SpecShared == InitShared /\ [][SharedNext]_vars

\* the disk methods called concurrently on an instance with no disk
InitDisk == HostIdle /\ AuxIdle /\ CtlInit /\ ValIdle /\ PostIdle
SpecDisk == InitDisk /\ [][DiskNext]_vars

\* findDevicePath on the directories of up to MaxEntries entries
InitScan ==
    /\ HostIdle
    /\ acc = [t \in Threads |-> NoAcc]
    /\ lastq = NoQuery
    /\ disks = <<>>
    /\ diskLock = NoThread
    /\ diskId = [t \in Threads |-> ""]
    /\ ScanInit
    /\ storageId = NoStorageId
    /\ peer = NoPeer
    /\ CtlInit
    /\ ValIdle
    /\ PostIdle
SpecScan == InitScan /\ [][ScanNext]_vars

\* MountStorage under concurrent callers, with every step of a call that
\* holds the lock eventually taken: each initiator-tool call returns, the
\* sleep of waitForDevice ends, and the deferred Unlock runs
Progress(t) == MethodStep(t) \/ Unlock(t)
SpecMount ==
    InitHost /\ [][HostNext]_vars /\ \A t \in Threads : WF_vars(Progress(t))

(***************************************************************************)
(* Properties of the host-side connection state machine.                   *)
(***************************************************************************)
Idx(tr) == 1..Len(tr)
VerbsOf(tr) == {tr[i].verb : i \in Idx(tr)}
CallsOf(tr, verb) == {i \in Idx(tr) : tr[i].verb = verb}
ForTarget(c) == c.iqn = conf.iqn /\ c.portal = conf.portal
\* what the tool or the resolver answered, read off the recorded call
DiscoveryFound(c) == c.verb = "discovery" /\ ~c.err /\ c.has
LoginWentThrough(c) == c.verb = "login" /\ (~c.err \/ c.has)
LoginSaidExists(c) == c.verb = "login" /\ c.err /\ c.has
LoginRefused(c) == c.verb = "login" /\ c.err /\ ~c.has
PollResolved(c) == c.verb = "poll" /\ ~c.err /\ c.has
Returning(t, methods) == pc[t] = "ret" /\ op[t] \in methods
Unmounts == {"UnmountStorage", "Detach"}

\* the case of C1: a Mount of a disconnected instance about to return, whose
\* discovery and login went through and none of whose polls resolved
TimedOutMount(t) ==
    /\ Returning(t, {"MountStorage"})
    /\ ~pre[t].conn
    /\ \E i \in Idx(trace[t]) : DiscoveryFound(trace[t][i])
    /\ \E i \in Idx(trace[t]) : LoginWentThrough(trace[t][i])
    /\ \A i \in CallsOf(trace[t], "poll") : ~PollResolved(trace[t][i])

\* C1: a MountStorage on a disconnected instance whose discovery and login
\* succeed and whose polls all fail until the deadline returns an error; its
\* last call is a logout for (iqn, portal), issued right after the last poll
\* and before the return; on return the flag is false and the path is empty.
C1_RollbackOnTimeout ==
    \A t \in Threads :
        TimedOutMount(t) =>
            LET tr == trace[t] n == Len(trace[t]) IN
            /\ ret[t] = "err"
            /\ n >= 2
            /\ tr[n].verb = "logout" /\ ForTarget(tr[n])
            /\ tr[n - 1].verb = "poll"
            /\ CallsOf(tr, "logout") = {n}
            /\ \A i \in CallsOf(tr, "poll") : i < n
            /\ elapsed[t] >= WaitTimeout
            /\ isConnected = FALSE
            /\ devicePath = ""

C1_Witness == \E t \in Threads : TimedOutMount(t) /\ ret[t] = "err"

\* C2: a MountStorage that finds the flag set returns success, issues no
\* discovery, node-parameter, login, poll or logout call, and leaves flag and
\* path as they were; every call a MountStorage issues is issued by one that
\* found the flag clear.
C2_MountIdempotent ==
    \A t \in Threads :
        /\ (op[t] = "MountStorage" /\ lockW = t /\ pre[t].conn) =>
               /\ trace[t] = <<>>
               /\ isConnected = pre[t].conn
               /\ devicePath = pre[t].path
               /\ pc[t] \in {"m_check", "ret"}
               /\ pc[t] = "ret" => ret[t] = "ok"
        /\ (op[t] = "MountStorage" /\ trace[t] # <<>>) => ~pre[t].conn

C2_Witness ==
    \E t \in Threads :
        Returning(t, {"MountStorage"}) /\ pre[t].conn /\ ret[t] = "ok"
        /\ trace[t] = <<>> /\ isConnected /\ devicePath # ""

\* C3: an UnmountStorage or Detach that finds the flag clear returns success,
\* issues no logout and no node delete, and leaves flag and path as they were.
C3_UnmountIdempotent ==
    \A t \in Threads :
        (op[t] \in Unmounts /\ lockW = t /\ ~pre[t].conn) =>
            /\ trace[t] = <<>>
            /\ isConnected = pre[t].conn
            /\ devicePath = pre[t].path
            /\ pc[t] \in {"u_check", "ret"}
            /\ pc[t] = "ret" => ret[t] = "ok"

C3_Witness ==
    \E t \in Threads :
        Returning(t, {"Detach"}) /\ ~pre[t].conn /\ ret[t] = "ok"
        /\ trace[t] = <<>> /\ ~isConnected /\ session

\* C4: whenever no MountStorage/UnmountStorage holds the exclusive lock (so
\* whenever a reader holds the shared lock), a set flag comes with a non-empty
\* device path; a MountStorage that returns success has set both, the path to
\* what the wait resolved, while it still holds the lock.
C4_ConnectedHasPath ==
    /\ (lockW = NoThread /\ isConnected) => devicePath # ""
    /\ \A t \in Threads :
           /\ (t \in lockR /\ isConnected) => devicePath # ""
           /\ (pc[t] \in {"r_read", "r_ret"} /\ pre[t].conn) => pre[t].path # ""
           /\ (Returning(t, {"MountStorage"}) /\ ret[t] = "ok") =>
                  /\ lockW = t
                  /\ isConnected /\ devicePath # ""
                  /\ ~pre[t].conn => devicePath = found[t]

C4_Witness ==
    \E t \in Threads :
        /\ t \in lockR /\ pc[t] = "r_read" /\ op[t] = "GetDevicePath"
        /\ lockW = NoThread /\ isConnected /\ devicePath = "/dev/sdc"

\* positions at which a goroutine is inside the exclusive / the shared section
InExclusive(t) == pc[t] \notin {"idle", "r_read", "r_ret"}
InShared(t) == pc[t] \in {"r_read", "r_ret"}

\* C5: at most one MountStorage/UnmountStorage is inside its critical section
\* at a time, whoever is inside holds the exclusive lock, every initiator or
\* resolver call of a method in progress belongs to the one lock holder (so
\* the calls of two methods never interleave), and no reader is inside its
\* section while a writer is.
C5_MutualExclusion ==
    /\ \A t, u \in Threads : (InExclusive(t) /\ InExclusive(u)) => t = u
    /\ \A t \in Threads :
           /\ InExclusive(t) <=> lockW = t
           /\ InShared(t) <=> t \in lockR
           /\ trace[t] # <<>> => lockW = t
    /\ lockW # NoThread => lockR = {}

C5_Witness ==
    \E t, u \in Threads :
        /\ t # u
        /\ lockW = t /\ pc[t] = "m_wait" /\ Len(trace[t]) >= 3
        /\ pc[u] = "idle" /\ ~ENABLED Lock(u) /\ ~ENABLED RLock(u)

\* C6: an UnmountStorage on a connected instance issues exactly two calls,
\* the logout and then the node delete for (iqn, portal), the delete also
\* when the logout failed; flag and path are untouched until both are issued,
\* then cleared; it returns success with the flag false and the path empty
\* whatever the two calls answered.
C6_UnmountTeardown ==
    \A t \in Threads :
        (op[t] \in Unmounts /\ lockW = t /\ pre[t].conn) =>
            LET tr == trace[t] IN
            /\ pc[t] \in {"u_check", "u_logout"} => tr = <<>>
            /\ pc[t] = "u_cleanup" =>
                   Len(tr) = 1 /\ tr[1].verb = "logout" /\ ForTarget(tr[1])
            /\ pc[t] \in {"u_check", "u_logout", "u_cleanup"} =>
                   isConnected /\ devicePath = pre[t].path
            /\ pc[t] \in {"u_clearpath", "u_clearflag", "ret"} =>
                   /\ Len(tr) = 2
                   /\ tr[1].verb = "logout" /\ ForTarget(tr[1])
                   /\ tr[2].verb = "delete" /\ ForTarget(tr[2])
            /\ pc[t] = "ret" =>
                   ret[t] = "ok" /\ isConnected = FALSE /\ devicePath = ""

C6_Witness ==
    \E t \in Threads :
        /\ Returning(t, {"UnmountStorage"}) /\ pre[t].conn /\ ret[t] = "ok"
        /\ Len(trace[t]) = 2
        /\ trace[t][1].err /\ ~trace[t][1].has
        /\ trace[t][2].err /\ ~trace[t][2].has
        /\ ~isConnected /\ devicePath = ""

\* C7: a MountStorage whose discovery fails (tool error, or s.Iqn absent from
\* the output) returns an error having issued nothing but that discovery; one
\* whose login fails without "already exists" returns an error with the login
\* as its last call and no poll and no logout; in both cases the flag stays
\* false and the path empty.
C7_EarlyFailure ==
    \A t \in Threads :
        (op[t] = "MountStorage" /\ lockW = t /\ trace[t] # <<>>) =>
            LET tr == trace[t] n == Len(trace[t]) IN
            /\ (tr[1].verb = "discovery" /\ ~DiscoveryFound(tr[1])) =>
                   /\ n = 1
                   /\ pc[t] = "ret" /\ ret[t] = "err"
                   /\ ~isConnected /\ devicePath = ""
            /\ (\E i \in Idx(tr) : LoginRefused(tr[i])) =>
                   /\ LoginRefused(tr[n])
                   /\ VerbsOf(tr) \cap {"poll", "logout"} = {}
                   /\ pc[t] = "ret" /\ ret[t] = "err"
                   /\ ~isConnected /\ devicePath = ""

C7_Witness ==
    \E t \in Threads :
        /\ Returning(t, {"MountStorage"}) /\ ret[t] = "err"
        /\ Len(trace[t]) = 2
        /\ DiscoveryFound(trace[t][1])
        /\ LoginRefused(trace[t][2])

\* C8: a login invocation that fails with "already exists" in its output
\* counts as a successful login, the Mount goes on to the device wait (and
\* returns success once a poll resolves); a login invocation that fails with
\* any other output ends the Mount with an error.
C8_LoginAlreadyExists ==
    \A t \in Threads :
        (op[t] = "MountStorage" /\ lockW = t /\ trace[t] # <<>>) =>
            LET tr == trace[t] n == Len(trace[t]) IN
            /\ LoginSaidExists(tr[n]) => pc[t] = "m_wait" /\ ret[t] = "none"
            /\ LoginRefused(tr[n]) => pc[t] = "ret" /\ ret[t] = "err"
            /\ (pc[t] = "ret" /\ \E i \in Idx(tr) : LoginSaidExists(tr[i])) =>
                   IF PollResolved(tr[n])
                     THEN ret[t] = "ok" /\ isConnected /\ devicePath = found[t]
                     ELSE ret[t] = "err" /\ tr[n].verb = "logout"

C8_Witness ==
    \E t \in Threads :
        /\ Returning(t, {"MountStorage"}) /\ ret[t] = "ok" /\ isConnected
        /\ \E i \in Idx(trace[t]) : LoginSaidExists(trace[t][i])
        /\ PollResolved(trace[t][Len(trace[t])])

(***************************************************************************)
(* Properties of the creation path.                                        *)
(***************************************************************************)
TargetB == <<"10.0.0.2">>
IqnB == <<"iqn.", "2023", "-", "01", ".", "com.example", ":", "target02">>
\* well-formed requests to put to ValidateCreateData in a reachable table
ProbeInputs ==
    {[target |-> t, iqn |-> q, portal |-> p,
      username |-> c[1], password |-> c[2], lunId |-> l] :
        t \in {TargetA, TargetB}, q \in {IqnA, IqnB}, p \in {PortalA, PortalB},
        c \in {NoCredentials, BothCredentials, UserOnly}, l \in {-1, 0, 1, 2}}
\* the identity of a request, an unset LUN counting as 0
RequestTuple(input) ==
    <<input.target, input.iqn, input.portal,
      IF input.lunId < 0 THEN 0 ELSE input.lunId>>
RecordTuple(rec) ==
    <<rec.conf.target, rec.conf.iqn, rec.conf.portal, rec.conf.lunId>>
Persisted(tuple) == \E i \in 1..Len(storages) : RecordTuple(storages[i]) = tuple
PairingOk(input) == (input.username = <<>>) <=> (input.password = <<>>)

\* C9: no two persisted iSCSI storage records have the same
\* (target, iqn, portal, lunId), whatever the interleaving of creation
\* requests that validate first and are persisted in a later step.
C9_UniqueIdentity ==
    \A i, j \in 1..Len(storages) :
        i # j => RecordTuple(storages[i]) # RecordTuple(storages[j])

Provisioned == {k \in 1..Len(caches) : caches[k].externalId \in Records}
Connection(rec) == <<rec.conf.target, rec.conf.iqn, rec.conf.portal>>
CacheIds(table) == {table[k].id : k \in 1..Len(table)}
\* the records a run saw, other than its own, that have its target, iqn and
\* portal and a cache reference
SeenSharing(id) ==
    {i \in 1..Len(jobs[id].seen) :
        /\ i # id
        /\ Connection(jobs[id].seen[i]) = Connection(jobs[id].pre)
        /\ jobs[id].seen[i].cacheId # NoCache}
Completed(id) == jobs[id].pc = "done" /\ ~jobs[id].failed

\* C11: at most one cache record is ever provisioned for the storage records
\* that share target, iqn and portal, whatever the interleaving of the
\* PostCreate runs and whichever persistence steps fail.
C11_OneCachePerConnection ==
    \A a, b \in Provisioned :
        a # b => Connection(storages[caches[a].externalId])
                 # Connection(storages[caches[b].externalId])

\* C12: a PostCreate run that completes for a record B, after one has
\* completed for a record A of the same target, iqn and portal and another
\* LUN, leaves B with A's cache reference and creates no cache record; a run
\* that completes for a record whose connection no record with a cache has
\* creates a cache record and leaves the record with it; either way the
\* record ends online.
C12_CacheSharing ==
    \A id \in Records :
        (Completed(id) /\ jobs[id].scanned) =>
            /\ storages[id].status = Online
            /\ IF SeenSharing(id) # {}
                 THEN /\ jobs[id].created = NoCache
                      /\ \E a \in SeenSharing(id) :
                           /\ storages[id].cacheId = jobs[id].seen[a].cacheId
                           /\ \A i \in SeenSharing(id) : a <= i
                      /\ storages[id].cacheId \in
                            CacheIds(caches) \ {jobs[id].created}
                 ELSE /\ jobs[id].created # NoCache
                      /\ storages[id].cacheId = jobs[id].created
                      /\ \A i \in 1..Len(jobs[id].seen) :
                            jobs[id].seen[i].cacheId # jobs[id].created
                      /\ \E k \in 1..Len(caches) :
                            /\ caches[k].id = jobs[id].created
                            /\ caches[k].externalId = id
                      /\ \A k, l \in 1..Len(caches) :
                            caches[k].id = caches[l].id => k = l

\* A completed, then B of the same connection took A's cache, and C behind
\* another portal got a cache of its own
C12_Witness ==
    \E a, b, c \in Records :
        /\ Completed(a) /\ Completed(b) /\ Completed(c)
        /\ Connection(storages[a]) = Connection(storages[b])
        /\ storages[a].conf.lunId # storages[b].conf.lunId
        /\ Connection(storages[c]) # Connection(storages[a])
        /\ jobs[a].created # NoCache /\ storages[a].cacheId = jobs[a].created
        /\ jobs[b].created = NoCache /\ jobs[b].seen[a].cacheId = jobs[a].created
        /\ storages[b].cacheId = storages[a].cacheId
        /\ jobs[c].created # NoCache /\ storages[c].cacheId = jobs[c].created
        /\ storages[c].cacheId # storages[a].cacheId
        /\ \A r \in {a, b, c} : storages[r].status = Online
        /\ Cardinality(Provisioned) = 2

\* C19: while a PostCreate run has not completed all its persistence
\* operations with success, and so after any of them failed, the record has
\* the status and the cache reference it had when the run began.
C19_FailureKeepsRecord ==
    \A id \in Records :
        /\ (jobs[id].pc # "new" /\ ~Completed(id)) =>
               /\ storages[id].status = jobs[id].pre.status
               /\ storages[id].cacheId = jobs[id].pre.cacheId
        /\ jobs[id].pc = "new" =>
               /\ storages[id].status = Offline
               /\ storages[id].cacheId \in {NoCache, OldCache.id}

\* the cache insert succeeded and the update of the record failed
C19_Witness ==
    \E id \in Records :
        /\ jobs[id].pc = "done" /\ jobs[id].failed
        /\ jobs[id].created # NoCache
        /\ storages[id].status = Offline
        /\ storages[id].cacheId = NoCache

\* C20: a PostCreate run on a record that carries a cache reference only
\* sets the status to online: it fetches no records, creates no cache record
\* and leaves the cache reference as it was.
C20_CachedRecordOnlyOnline ==
    \A id \in Records :
        (jobs[id].pc # "new" /\ jobs[id].pre.cacheId # NoCache) =>
            /\ storages[id].cacheId = jobs[id].pre.cacheId
            /\ ~jobs[id].scanned
            /\ jobs[id].created = NoCache
            /\ \A k \in Provisioned : caches[k].externalId # id
            /\ jobs[id].pc \in {"check", "done"}
            /\ Completed(id) => storages[id].status = Online

C20_Witness ==
    \E id \in Records :
        /\ Completed(id)
        /\ jobs[id].pre.cacheId = OldCache.id
        /\ jobs[id].pre.status = Offline
        /\ storages[id].status = Online
        /\ storages[id].cacheId = OldCache.id
        /\ caches = <<OldCache>>

(***************************************************************************)
(* Properties of the validators.                                           *)
(***************************************************************************)
Created == vout.done /\ vin.op = "create"
Updated == vout.done /\ vin.op = "update"
Paired(c) == (c.username = <<>>) <=> (c.password = <<>>)
RejectedBeforeProbe ==
    vout.err.kind \in {"MissingParameter", "InputParameter", "DuplicateResource"}

\* C13: when ValidateUpdateData returns an error, the configuration has the
\* username and password it had and the configuration-changed flag is as
\* the request carried it.
C13_UpdateWritesAfterProbe ==
    (Updated /\ vout.err # NoErr) =>
        /\ vout.conf.username = vin.conf.username
        /\ vout.conf.password = vin.conf.password
        /\ vout.flag = vin.input.updateConf

\* C14: in a configuration written by a successful ValidateCreateData or
\* ValidateUpdateData the username and the password are both empty or both
\* non-empty.
C14_StoredCredentialsPaired ==
    /\ (Created /\ vout.err = NoErr) => Paired(vout.conf)
    /\ (Updated /\ vout.err = NoErr /\ vout.flag) => Paired(vout.conf)

\* C15: every configuration ValidateCreateData writes has its lunId within
\* [0, 255].
C15_LunIdInRange ==
    (Created /\ vout.err = NoErr) =>
        (vout.conf.lunId >= 0 /\ vout.conf.lunId <= 255)

\* C16: ValidateCreateData answers a request whose target, iqn or portal is
\* empty with a missing-parameter error, whatever the other fields are.
C16_MissingParameter ==
    (Created /\ (vin.input.target = <<>> \/ vin.input.iqn = <<>>
                 \/ vin.input.portal = <<>>)) =>
        vout.err.kind = "MissingParameter"

\* C17: ValidateCreateData attempts the connection to the portal only after
\* the presence, format, pairing and duplicate checks have passed; a request
\* rejected by one of them opens no connection.
C17_ProbeIsLast ==
    Created =>
        /\ RejectedBeforeProbe => ~vout.dialed
        /\ vout.dialed =>
              /\ vin.input.target # <<>> /\ vin.input.iqn # <<>>
              /\ vin.input.portal # <<>>
              /\ Paired(vin.input)
              /\ ~Persisted(RequestTuple(vin.input))
              /\ vout.err.kind \in {"", "BadRequest"}

\* a request of a persisted identity, rejected without a connection
C17_Witness ==
    /\ Created
    /\ vout.err.kind = "DuplicateResource"
    /\ ~vout.dialed
    /\ Persisted(RequestTuple(vin.input))

\* C18: ValidateCreateData writes the six fields into the configuration
\* exactly when it returns no error; on every rejection the configuration
\* is empty.
C18_NoPartialWrite ==
    Created =>
        IF vout.err = NoErr
          THEN /\ vout.conf.written
               /\ vout.conf.target = vin.input.target
               /\ vout.conf.iqn = vin.input.iqn
               /\ vout.conf.portal = vin.input.portal
               /\ vout.dialed
          ELSE vout.conf = EmptyConf

\* a request that passed every check and whose probe failed
C18_Witness ==
    /\ Created
    /\ vout.err.kind = "BadRequest"
    /\ vout.dialed
    /\ vout.conf = EmptyConf
    /\ vin.input.username # <<>>

\* C21: ValidateUpdateData on a request that supplies neither a username nor
\* a password runs no connectivity probe, leaves the configuration and the
\* configuration-changed flag as the request carried them, and returns what
\* the base update validator returns.
C21_UpdateWithoutCredentialsIsNoOp ==
    (Updated /\ vin.input.username = <<>> /\ vin.input.password = <<>>) =>
        /\ ~vout.dialed
        /\ vout.conf = vin.conf
        /\ vout.flag = vin.input.updateConf
        /\ vout.err =
             baseValidateUpdateData(vin.conf, vin.input.updateConf, FALSE).err

\* an update without credentials returned on a record that has a portal to
\* probe and credentials to keep
C21_Witness ==
    /\ Updated
    /\ vin.input.username = <<>>
    /\ vin.input.password = <<>>
    /\ updateDials(vin.conf)
    /\ vin.conf.username # <<>>
    /\ vout.conf = vin.conf
    /\ ~vout.dialed

(***************************************************************************)
(* Properties of the field validators.                                     *)
(***************************************************************************)
AuthChecked == vout.done /\ vin.op = "auth"
PortalChecked == vout.done /\ vin.op = "portal"
IqnChecked == vout.done /\ vin.op = "iqn"

\* both empty, or both set, each of at most 255 characters, the username
\* without a space, tab, newline or carriage return
AuthAcceptable(u, p) ==
    \/ u = <<>> /\ p = <<>>
    \/ /\ u # <<>>
       /\ p # <<>>
       /\ StrLen(u) <= 255
       /\ StrLen(p) <= 255
       /\ \A i \in 1..Len(u) : u[i] \notin {" ", "\t", "\n", "\r"}
AuthRejected == vout.err = Err("InputParameter", "authentication")
ReachesAuthCheck ==
    /\ vout.err.kind # "MissingParameter"
    /\ vout.err.field \notin {"iscsi_target", "iscsi_iqn", "iscsi_portal"}

\* C24: validateAuthParams accepts a username and a password iff both are
\* empty, or both are set with at most 255 characters each and no whitespace
\* in the username; a username without a password and a password without a
\* username fail with their messages; ValidateCreateData and
\* ValidateUpdateData reject by the same rule.
C24_AuthParams ==
    /\ AuthChecked =>
         /\ (vout.msg = "") <=>
                AuthAcceptable(vin.input.username, vin.input.password)
         /\ (vin.input.username # <<>> /\ vin.input.password = <<>>) =>
                vout.msg = "password is required when username is provided"
         /\ (vin.input.username = <<>> /\ vin.input.password # <<>>) =>
                vout.msg = "username is required when password is provided"
    /\ (Created /\ ReachesAuthCheck) =>
         (AuthRejected <=>
            ~AuthAcceptable(vin.input.username, vin.input.password))
    /\ Updated =>
         (AuthRejected <=>
            ~AuthAcceptable(vin.input.username, vin.input.password))

\* a username and a password of exactly 255 characters are accepted
C24_Witness ==
    /\ AuthChecked
    /\ StrLen(vin.input.username) = 255
    /\ StrLen(vin.input.password) = 255
    /\ vout.msg = ""

\* port tokens that denote an integer within [1, 65535]
ValidPorts == {"1", "3260", "3261", "65535"}
\* host ":" port with an IPv4 host, or "[" host "]" ":" port
PortalAcceptable(s) ==
    \E h \in IpLiterals \cup Ip6Literals, p \in ValidPorts :
        \/ h \in IpLiterals /\ s = <<h, ":", p>>
        \/ s = <<"[", h, "]", ":", p>>

\* C25: validatePortalAddress accepts a portal iff it splits into a host and
\* a port, the host an IPv4 literal or a bracketed IPv6 literal, the port an
\* integer within [1, 65535]; a portal without a port, with port 0, -1 or
\* 65536, or with an invalid IP address is rejected.
C25_PortalAddress ==
    PortalChecked =>
        /\ (vout.msg = "") <=> PortalAcceptable(vin.input.portal)
        /\ vin.input.portal \in
               {<<"10.0.0.1">>, <<"10.0.0.1", ":", "0">>,
                <<"10.0.0.1", ":", "-1">>, <<"10.0.0.1", ":", "65536">>,
                <<"999.1.1.1", ":", "3260">>} => vout.msg # ""

\* a bracketed IPv6 portal is accepted
C25_Witness ==
    /\ PortalChecked
    /\ vin.input.portal = <<"[", "::1", "]", ":", "3260">>
    /\ vout.msg = ""

\* iqn.<4 digits>-<2 digits>.<authority>:<unique-name>
IqnShaped(s) ==
    /\ Len(s) >= 8
    /\ SubSeq(s, 1, 1) = <<"iqn.">>
    /\ Len(s[2]) = 4
    /\ s[2] \in Digits4
    /\ s[3] = "-"
    /\ Len(s[4]) = 2
    /\ s[4] \in Digits2
    /\ s[5] = "."
    /\ s[6] \in AuthorityToks
    /\ s[7] = ":"
    /\ \A i \in 8..Len(s) : s[i] \in NameToks

\* C26: validateIQN accepts a name iff it has the form
\* iqn.<4 digits>-<2 digits>.<authority>:<unique-name> and at most 223
\* characters; an empty name, a name without the prefix, with a 2-digit year,
\* without the colon or longer than 223 characters is rejected.
C26_Iqn ==
    IqnChecked =>
        /\ (vout.msg = "") <=>
               (IqnShaped(vin.input.iqn) /\ StrLen(vin.input.iqn) <= 223)
        /\ vin.input.iqn \in
               {<<>>,
                <<"2023", "-", "01", ".", "com.example", ":", "target01">>,
                <<"iqn.", "23", "-", "01", ".", "com.example", ":",
                  "target01">>,
                <<"iqn.", "2023", "-", "01", ".", "com.example">>,
                IqnPrefix \o <<"n{199}", "n">>} => vout.msg # ""

\* a well-formed name of exactly 223 characters is accepted
C26_Witness ==
    /\ IqnChecked
    /\ IqnShaped(vin.input.iqn)
    /\ StrLen(vin.input.iqn) = 223
    /\ vout.msg = ""

(***************************************************************************)
(* Properties of the methods that take no lock of their own.               *)
(***************************************************************************)
\* C22: no operation of the host-side storage object changes the persisted
\* storage record, in its status or in any other field.
C22_HostNeverWritesRecord == [][storages' = storages]_vars

\* C23: Accessible calls MountStorage exactly when IsConnected returned
\* false, returns the error of a failed mount, and otherwise returns nil
\* only when os.Stat of the path GetDevicePath returned succeeds; an empty
\* path and a failing stat are returned as errors.
C23_Accessible ==
    \A t \in Threads :
        /\ acc[t].stage \in {"mounting", "mounted"} => ~acc[t].sawConn
        /\ acc[t].stage \in {"path", "stat"} =>
               (acc[t].mounted <=> ~acc[t].sawConn)
        /\ pc[t] = "a_done" =>
               /\ acc[t].res \in {"ok", "mount-err", "no-path", "stat-err"}
               /\ acc[t].mres = "err" <=> acc[t].res = "mount-err"
               /\ acc[t].res = "ok" =>
                      acc[t].path # "" /\ acc[t].stat = "ok"
               /\ (acc[t].mres # "err" /\ acc[t].path = "") =>
                      acc[t].res = "no-path"
               /\ acc[t].stat = "err" => acc[t].res = "stat-err"

\* Accessible mounted the instance and returned nil
C23_Witness ==
    /\ pc[1] = "a_done"
    /\ ~acc[1].sawConn
    /\ acc[1].mounted
    /\ acc[1].mres = "ok"
    /\ acc[1].stat = "ok"
    /\ acc[1].res = "ok"

\* C30: when the MountStorage that Accessible called returned nil,
\* Accessible does not return "no device path available", whatever an
\* UnmountStorage called concurrently on the instance does.
C30_MountedThenPath ==
    \A t \in Threads : acc[t].mres = "ok" => acc[t].res # "no-path"

\* C27: GetCapacityMb and GetFreeSizeMb return -1 on the fresh instance and
\* in every state MountStorage and UnmountStorage lead to.
C27_CapacityUnknown ==
    lastq.op \in {"GetCapacityMb", "GetFreeSizeMb"} => lastq.num = -1

\* the capacity is asked of a connected instance
C27_Witness ==
    /\ lastq.op = "GetCapacityMb"
    /\ lastq.before.conn
    /\ lastq.before.path # ""
    /\ lastq.num = -1

\* the snapshot, backup, clone and migration operations
Rejected ==
    {"DeleteSnapshot", "DeleteSnapshots", "IsSnapshotExist",
     "CreateSnapshotFormUrl", "CreateDiskFromSnapshot", "StorageBackup",
     "StorageBackupRecovery", "CreateDiskFromBackup", "CloneDiskFromStorage",
     "DiskMigrate", "DestinationPrepareMigrate"}

\* C28: every snapshot, backup, clone and migration operation returns the
\* unsupported-operation error in every connection state and leaves the
\* connected flag, the device path and the disk list as they were.
C28_Unsupported ==
    lastq.op \in Rejected =>
        /\ lastq.err = "ErrNotSupported"
        /\ isConnected = lastq.before.conn
        /\ devicePath = lastq.before.path
        /\ disks = lastq.before.disks

\* a migration is asked of a connected instance that holds a disk
C28_Witness ==
    /\ lastq.op = "DiskMigrate"
    /\ lastq.err = "ErrNotSupported"
    /\ isConnected
    /\ devicePath # ""
    /\ disks # <<>>

\* C29: while an instance is connected and not unmounting, the session for
\* its (iqn, portal) is logged in, whatever the instance that shares the
\* pair with another LUN does.
C29_SharedSessionKept ==
    (PeerConf.iqn = conf.iqn /\ PeerConf.portal = conf.portal
       /\ PeerConf.lunId # conf.lunId /\ isConnected /\ pc[1] = "idle") =>
        session

(***************************************************************************)
(* Properties of the steps of MountStorage.                                *)
(***************************************************************************)
\* C31: a MountStorage that fails after its login reported "already exists"
\* leaves the session, which it did not create, logged in.
C31_RollbackSparesForeignSession ==
    \A t \in Threads :
        (Returning(t, {"MountStorage"}) /\ ret[t] = "err"
           /\ \E i \in Idx(trace[t]) : LoginSaidExists(trace[t][i])) =>
            session

(***************************************************************************)
(* Properties of the cache records and the status.                         *)
(***************************************************************************)
\* C32: every cache record a PostCreate run inserted is, once the run has
\* returned, the cache the storage record it was inserted for refers to.
C32_InsertedCacheIsReferenced ==
    \A id \in Records :
        (jobs[id].pc = "done" /\ jobs[id].created # NoCache) =>
            \A k \in Provisioned :
                caches[k].externalId = id =>
                    storages[id].cacheId = caches[k].id

\* the records that are online
OnlineRecords == {id \in Records : storages[id].status = Online}

\* C33: whatever PostCreate runs have taken place on records that began
\* offline, a record that is online refers to a cache, and a cache record with
\* that identifier exists.
C33_OnlineHasExistingCache ==
    \A id \in OnlineRecords :
        /\ storages[id].cacheId # NoCache
        /\ storages[id].cacheId \in CacheIds(caches)

\* one record went online with the cache it carried, one with a cache its run
\* inserted and one with the cache of a record of its connection
C33_Witness ==
    \E a, b, c \in OnlineRecords :
        /\ jobs[a].pre.cacheId # NoCache /\ ~jobs[a].scanned
        /\ jobs[b].created # NoCache /\ storages[b].cacheId = jobs[b].created
        /\ jobs[c].scanned /\ jobs[c].created = NoCache
        /\ jobs[c].pre.cacheId = NoCache
        /\ storages[c].cacheId \in CacheIds(caches)

\* the node parameters a call has set so far, in the order of the calls
ParamCalls(tr) == SelectSeq(tr, LAMBDA c : c.verb = "setparam")
ChapParams ==
    << <<"node.session.auth.authmethod", "CHAP">>,
       <<"node.session.auth.username", conf.username>>,
       <<"node.session.auth.password", conf.password>> >>

\* C40: with username and password configured, a MountStorage sets authmethod
\* to CHAP, then the username, then the password, and issues the login only
\* after the three succeeded and right after the last; a parameter that fails
\* ends the call with an error and without a login; without credentials no
\* parameter is set and the login follows the discovery.
C40_ChapBeforeLogin ==
    \A t \in Threads :
        LET tr == trace[t] ps == ParamCalls(trace[t]) IN
        /\ Len(ps) <= 3
        /\ \A k \in Idx(ps) :
              /\ <<ps[k].arg, ps[k].value>> = ChapParams[k]
              /\ ForTarget(ps[k])
              /\ ps[k].err => k = Len(ps)
        /\ ~hasCredentials => ps = <<>>
        /\ \A i \in CallsOf(tr, "login") :
              /\ CallsOf(tr, "login") = {i}
              /\ i > 1
              /\ IF hasCredentials
                   THEN /\ Len(ps) = 3
                        /\ \A k \in 1..3 : tr[i - 4 + k] = ps[k] /\ ~ps[k].err
                        /\ i > 4 /\ DiscoveryFound(tr[i - 4])
                   ELSE DiscoveryFound(tr[i - 1])
        /\ \A i \in CallsOf(tr, "setparam") :
              tr[i].err =>
                  /\ i = Len(tr)
                  /\ CallsOf(tr, "login") = {}
                  /\ Returning(t, {"MountStorage"}) /\ ret[t] = "err"
                  /\ lockW = t /\ ~isConnected

\* one call logged in after the three parameters, with credentials
C40_Witness ==
    \E t \in Threads :
        /\ hasCredentials
        /\ Len(ParamCalls(trace[t])) = 3
        /\ CallsOf(trace[t], "login") # {}

\* the polls of waitForDevice a call has made
Polls(t) == CallsOf(trace[t], "poll")
MaxPolls == WaitTimeout \div WaitInterval
\* what holds of the wait at every moment of a MountStorage
WaitBounded(t) ==
    /\ Cardinality(Polls(t)) <= MaxPolls
    /\ \A i \in Polls(t) :
          PollResolved(trace[t][i]) =>
              /\ i = Len(trace[t])
              /\ found[t] \in DevPaths
              /\ pc[t] \in {"m_setpath", "m_setflag", "ret"}
    /\ pc[t] = "m_rollback" => elapsed[t] >= WaitTimeout
\* how a MountStorage ends
MountOutcome(t) ==
    Returning(t, {"MountStorage"}) =>
        \/ /\ ret[t] = "ok" /\ isConnected /\ devicePath # ""
           /\ ~pre[t].conn => /\ trace[t] # <<>>
                              /\ PollResolved(trace[t][Len(trace[t])])
                              /\ devicePath = found[t]
        \/ /\ ret[t] = "err" /\ ~isConnected
           /\ Polls(t) # {} =>
                 /\ elapsed[t] >= WaitTimeout
                 /\ \A i \in Polls(t) : ~PollResolved(trace[t][i])

\* C39: a MountStorage whose tool calls return does return: the wait polls
\* at most once per interval until the deadline, stops at the first resolved
\* path, times out only after the deadline, and the call ends connected with
\* success or disconnected with an error.
C39_MountReturns ==
    /\ [](\A t \in Threads : WaitBounded(t) /\ MountOutcome(t))
    /\ \A t \in Threads :
          (op[t] = "MountStorage" /\ pc[t] = "m_check")
              ~> (Returning(t, {"MountStorage"}) /\ ret[t] \in {"ok", "err"})

\* a call that polled until the deadline, once per interval, and timed out
C39_Witness ==
    \E t \in Threads :
        /\ Returning(t, {"MountStorage"}) /\ ret[t] = "err"
        /\ Cardinality(Polls(t)) = MaxPolls
        /\ elapsed[t] = WaitTimeout

\* the discovery output lists the configured name as the name of a target
ListsTarget(c) == \E k \in 1..Len(c.listed) : c.listed[k] = <<conf.iqn>>

\* C38: a MountStorage whose discovery fails or whose discovery output does
\* not list the configured name, whatever other names it lists, returns an
\* error and issues no login.
C38_DiscoveryNeedsListedTarget ==
    \A t \in Threads :
        (op[t] = "MountStorage" /\ lockW = t /\ trace[t] # <<>>) =>
            LET tr == trace[t] IN
            (tr[1].verb = "discovery" /\ (tr[1].err \/ ~ListsTarget(tr[1]))) =>
                /\ Len(tr) = 1
                /\ CallsOf(tr, "login") = {}
                /\ pc[t] = "ret" /\ ret[t] = "err"

(***************************************************************************)
(* Properties of the disk list.                                            *)
(***************************************************************************)
\* a goroutine waits for the disk lock while holding it
SelfBlocked(t) == pc[t] \in {"d_lock", "c_lock"} /\ diskLock = t

\* C34: GetDiskById never waits for the disk lock it holds: for an id that
\* is not in the list it gets to the probe of the disk it created and
\* returns the disk or a not-found error.
C34_GetDiskByIdNeverSelfBlocks ==
    \A t \in Threads : op[t] = "GetDiskById" => ~SelfBlocked(t)

(***************************************************************************)
(* Properties of findDevicePath.                                           *)
(***************************************************************************)
\* the entries whose names match the pattern of the call
Matching ==
    {i \in 1..Len(scan.dir) :
        matches(scan.dir[i], scan.host, ScanIqn, scan.lunId)}
Scanned == scan.done /\ ~scan.readErr

\* C35: findDevicePath returns what the first entry with a matching name
\* resolves to; it fails when no name matches, and when the first entry with
\* a matching name does not resolve.
C35_FirstMatchDecides ==
    Scanned =>
        IF Matching = {}
          THEN scan.err # "none" /\ scan.path = ""
          ELSE LET first == CHOOSE i \in Matching : \A j \in Matching : i <= j
               IN  IF scan.dir[first].link = ""
                     THEN scan.err # "none" /\ scan.path = ""
                     ELSE /\ scan.err = "none"
                          /\ scan.path = scan.dir[first].link
                          /\ scan.from = first

\* C36: the entry findDevicePath returns the device of has the configured
\* lunId as its whole LUN: not a longer LUN that begins with the same
\* digits, not a partition.
C36_ExactLun ==
    (Scanned /\ scan.from # 0) =>
        scan.dir[scan.from].lun = FormatInt(scan.lunId)

\* the entry the kernel makes for the session of the call, resolving
OwnEntries ==
    {i \in 1..Len(scan.dir) :
        /\ scan.dir[i].addr = EntryAddr(scan.portal)
        /\ scan.dir[i].iqn = ScanIqn
        /\ scan.dir[i].lun = FormatInt(scan.lunId)
        /\ scan.dir[i].link # ""}

\* C37: for a portal validatePortalAddress accepts, the host findDevicePath
\* derives is the host of the portal, and a scan of a directory that holds
\* the entry of the session finds a device.
C37_DerivedHostIsPortalHost ==
    (Scanned /\ validatePortalAddress(scan.portal)) =>
        /\ scan.host = <<SplitHostPort(scan.portal).host>>
        /\ OwnEntries # {} => scan.path # ""

====
